---- MODULE Spec2Model ----
(***************************************************************************)
(* what-to-watch: the swipe store, the group_matches view, the matches and *)
(* tonight endpoints and the match logic, as a state machine.              *)
(*                                                                         *)
(* Time is counted in hours.  A row of a table is a record whose fields    *)
(* are the columns the handlers read or write; the surrogate id and the    *)
(* swipes' timestamps are never read by the modelled handlers and are left *)
(* out.                                                                    *)
(***************************************************************************)
EXTENDS Integers, Sequences, FiniteSets, Bags, TLC

(***************************************************************************)
(* Value sets                                                              *)
(***************************************************************************)
Users == {"u1", "u2"}
Groups == {"gA", "gB"}
Movies == {"m1", "m2"}
MediaTypes == {"movie", "tv"}
Scores == 0..3
Statuses == {"swiped", "watching", "watched"}

\* A JSON field or query parameter that the request does not carry.
Absent == "absent"
\* The score of a request body without a score field.
Undefined == -1
\* The "no verdict" result of calculateMatchScore.
Null == -1

\* Bounds of the model: the rows of table swipes (MaxRanked where the ranking
\* of the matches is checked), the POST /api/swipe requests served at once,
\* the length of a list of swipes and the group size handed to
\* calculateMatchScore.
MaxRows == 2
MaxRanked == 3
MaxInflight == 2
MaxTime == 14
MaxLen == 3
MaxTotal == 4
MaxLabels == 3
MaxResults == 3
MaxPages == 3

VARIABLES
    swipesUnique,   \* the columns of the UNIQUE constraint of table swipes
    members,        \* table group_members: a set of <<user_id, group_id>>
    swipes,         \* table swipes: a set of rows
    picks,          \* table tonight_picks: a set of rows
    user_providers, \* table user_providers: a set of rows
    now,            \* the server's clock, in hours
    inflight,       \* POST /api/swipe requests that are past validation
    resp            \* what the last operation returned

vars == <<swipesUnique, members, swipes, picks, user_providers, now, inflight, resp>>

(***************************************************************************)
(* The store                                                               *)
(***************************************************************************)
\* UNIQUE(user_id, movie_id, media_type) of supabase_schema.sql
SwipesUniqueV1 == {"user_id", "movie_id", "media_type"}
\* UNIQUE(user_id, movie_id, media_type, group_id) of the reset schema
SwipesUniqueV2 == {"user_id", "movie_id", "media_type", "group_id"}
\* UNIQUE(user_id, movie_id, media_type) of tonight_picks
PicksUnique == {"user_id", "movie_id", "media_type"}

KeyOf(row, cols) == [c \in cols |-> row[c]]

\* INSERT ... ON CONFLICT (target) DO UPDATE: PostgreSQL takes the unique index
\* whose columns are exactly the target as arbiter, and rejects the statement
\* (42P10) when the table has none.
InsertOnly(table, row, target, unique) ==
    IF target # unique
    THEN [ok |-> FALSE, table |-> table]
    ELSE [ok |-> TRUE, table |-> table \cup {row}]

\* upsert with ignoreDuplicates: a row in conflict is left as it is.
UpsertIgnoringDuplicates(table, row, target, unique) ==
    IF target # unique
    THEN [ok |-> FALSE, table |-> table]
    ELSE IF \E r \in table : KeyOf(r, target) = KeyOf(row, target)
    THEN [ok |-> TRUE, table |-> table]
    ELSE [ok |-> TRUE, table |-> table \cup {row}]

Upsert(table, row, target, unique) ==
    IF target # unique
    THEN [ok |-> FALSE, table |-> table]
    ELSE [ok |-> TRUE,
          table |-> {r \in table : KeyOf(r, target) # KeyOf(row, target)} \cup {row}]

SwipeRow(u, g, mv, mt, sc, st) ==
    [user_id |-> u, group_id |-> g, movie_id |-> mv, media_type |-> mt,
     score |-> sc, status |-> st]

\* CHECK (score >= 0 AND score <= 3), CHECK (status IN ...), CHECK (media_type IN ...)
SwipeChecks(row) ==
    /\ row.score \in Scores
    /\ row.status \in Statuses
    /\ row.media_type \in MediaTypes

RECURSIVE SumScores(_)
SumScores(rows) ==
    IF rows = {} THEN 0
    ELSE LET r == CHOOSE x \in rows : TRUE
         IN r.score + SumScores(rows \ {r})

MinScore(rows) == CHOOSE s \in {r.score : r \in rows} : \A r \in rows : s <= r.score
MaxScore(rows) == CHOOSE s \in {r.score : r \in rows} : \A r \in rows : s >= r.score

\* One GROUP BY bucket of the view.
Bucket(tbl, g, mv, mt) ==
    {r \in tbl : r.group_id = g /\ r.movie_id = mv /\ r.media_type = mt}

MatchRow(tbl, g, mv, mt) ==
    [group_id |-> g, movie_id |-> mv, media_type |-> mt,
     total_match_score |-> SumScores(Bucket(tbl, g, mv, mt)),
     swipe_count |-> Cardinality(Bucket(tbl, g, mv, mt))]

\* The HAVING clause without its MIN(s.score) > 0.
HavingNoVeto(rows) == MaxScore(rows) >= 2

\* HAVING MIN(s.score) > 0 AND MAX(s.score) >= 2
Having(rows) == MinScore(rows) > 0 /\ MaxScore(rows) >= 2

\* CREATE VIEW group_matches
group_matches(tbl) ==
    {MatchRow(tbl, r.group_id, r.movie_id, r.media_type) :
        r \in {x \in tbl : Having(Bucket(tbl, x.group_id, x.movie_id, x.media_type))}}

(***************************************************************************)
(* lib/matchLogic.ts                                                       *)
(***************************************************************************)
RECURSIVE SumSeq(_)
SumSeq(s) == IF s = <<>> THEN 0 ELSE Head(s) + SumSeq(Tail(s))

\* calculateMatchScore with rule 2 reading score >= 1.
calculateMatchScoreLukewarm(sw, totalFamilyMembers) ==
    IF Len(sw) < totalFamilyMembers THEN Null
    ELSE LET scores == [i \in 1..Len(sw) |-> sw[i].score]
         IN IF ~(\A i \in 1..Len(scores) : scores[i] > 0) THEN Null
            ELSE IF ~(\E i \in 1..Len(scores) : scores[i] >= 1) THEN Null
            ELSE SumSeq(scores)

calculateMatchScore(sw, totalFamilyMembers) ==
    IF Len(sw) < totalFamilyMembers THEN Null
    ELSE LET scores == [i \in 1..Len(sw) |-> sw[i].score]
             everyoneLikes == \A i \in 1..Len(scores) : scores[i] > 0
             someoneActive == \E i \in 1..Len(scores) : scores[i] >= 2
         IN IF ~everyoneLikes THEN Null
            ELSE IF ~someoneActive THEN Null
            ELSE SumSeq(scores)

(***************************************************************************)
(* Requests                                                                *)
(***************************************************************************)
\* !x of the handlers, for an identifier
Missing(x) == x = Absent

\* const { ..., mediaType = 'movie', ..., status = 'swiped' } = await request.json()
Default(x, d) == IF x = Absent THEN d ELSE x

Titles == Movies \X MediaTypes

SwipeRequest(u, g, mv, mt, sc, st) ==
    [userId |-> u, groupId |-> g, movieId |-> mv, mediaType |-> mt,
     score |-> sc, status |-> st]

\* The request bodies with every required field, over the given media types
\* and statuses, and those that lack exactly one required field.
CompleteRequests(us, gs, ts, scs, sts) ==
    {SwipeRequest(u, g, t[1], t[2], sc, st) :
        u \in us, g \in gs, t \in ts, sc \in scs, st \in sts}

IncompleteRequests ==
    {SwipeRequest(Absent, "gA", "m1", "movie", 2, "swiped"),
     SwipeRequest("u1", Absent, "m1", "movie", 2, "swiped"),
     SwipeRequest("u1", "gA", Absent, "movie", 2, "swiped"),
     SwipeRequest("u1", "gA", "m1", "movie", Undefined, "swiped")}

\* The components issue requests with the signed-in user and that user's
\* active group, which is one of the groups the user has joined.
ActiveGroup(u, g) == u \in Users /\ g \in Groups => <<u, g>> \in members

Directions == {"up", "right", "down", "left"}
DirectionScore(d) ==
    CASE d = "up" -> 3 [] d = "right" -> 2 [] d = "down" -> 1 [] d = "left" -> 0

(***************************************************************************)
(* lib/auth.tsx: membership                                                *)
(***************************************************************************)
joinGroup(u, g) ==
    /\ IF <<u, g>> \in members
       THEN /\ members' = members
            /\ resp' = [op |-> "joinGroup", error |-> TRUE]
       ELSE /\ members' = members \cup {<<u, g>>}
            /\ resp' = [op |-> "joinGroup", error |-> FALSE]
    /\ UNCHANGED <<user_providers, swipesUnique, swipes, picks, now, inflight>>

leaveGroup(u, g) ==
    /\ <<u, g>> \in members
    /\ members' = members \ {<<u, g>>}
    /\ resp' = [op |-> "leaveGroup", error |-> FALSE]
    /\ UNCHANGED <<user_providers, swipesUnique, swipes, picks, now, inflight>>

(***************************************************************************)
(* POST and DELETE /api/swipe, and the discovery page's handleSwipe        *)
(***************************************************************************)
SwipeInvalid(req) ==
    \/ Missing(req.userId)
    \/ Missing(req.groupId)
    \/ Missing(req.movieId)
    \/ req.score = Undefined

SwipePayload(req) ==
    SwipeRow(req.userId, req.groupId, req.movieId, Default(req.mediaType, "movie"),
             req.score, Default(req.status, "swiped"))

\* onConflict: 'user_id,movie_id,media_type'
SwipeConflictTarget == {"user_id", "movie_id", "media_type"}

\* The handler's outcome on table tbl: the status it answers and the table it leaves.
PostSwipeOutcome(tbl, unique, req) ==
    IF SwipeInvalid(req) THEN [status |-> 400, table |-> tbl]
    ELSE LET up == Upsert(tbl, SwipePayload(req), SwipeConflictTarget, unique)
         IN IF up.ok /\ SwipeChecks(SwipePayload(req))
            THEN [status |-> 200, table |-> up.table]
            ELSE [status |-> 500, table |-> tbl]

PostSwipe(req) ==
    /\ ActiveGroup(req.userId, req.groupId)
    /\ LET out == PostSwipeOutcome(swipes, swipesUnique, req)
       IN /\ swipes' = out.table
          /\ resp' = [op |-> "POST /api/swipe", status |-> out.status]
    /\ UNCHANGED <<user_providers, swipesUnique, members, picks, now, inflight>>

\* The same handler as two steps, for requests served concurrently: it reads
\* and validates the body, then awaits the upsert, which the store runs as one
\* statement.  inflight lists the requests past validation, in order of
\* arrival, each with the status it was answered (0 while the upsert is pending).
ReceiveSwipe(req) ==
    /\ ActiveGroup(req.userId, req.groupId)
    /\ IF SwipeInvalid(req)
       THEN /\ resp' = [op |-> "POST /api/swipe", status |-> 400]
            /\ inflight' = inflight
       ELSE /\ resp' = resp
            /\ inflight' = Append(inflight, [req |-> req, status |-> 0])
    /\ UNCHANGED <<user_providers, swipesUnique, members, swipes, picks, now>>

CompleteSwipe(i) ==
    /\ i \in 1..Len(inflight)
    /\ inflight[i].status = 0
    /\ LET out == PostSwipeOutcome(swipes, swipesUnique, inflight[i].req)
       IN /\ swipes' = out.table
          /\ inflight' = [inflight EXCEPT ![i].status = out.status]
          /\ resp' = [op |-> "POST /api/swipe", status |-> out.status]
    /\ UNCHANGED <<user_providers, swipesUnique, members, picks, now>>

\* onConflict: 'user_id, movie_id, media_type, group_id'
HandleSwipeConflictTarget == {"user_id", "movie_id", "media_type", "group_id"}

handleSwipe(u, g, mv, mt, direction, st) ==
    /\ <<u, g>> \in members
    /\ LET row == SwipeRow(u, g, mv, mt, DirectionScore(direction), st)
           up == Upsert(swipes, row, HandleSwipeConflictTarget, swipesUnique)
       IN /\ swipes' = up.table
          /\ resp' = [op |-> "handleSwipe", error |-> ~up.ok]
    /\ UNCHANGED <<user_providers, swipesUnique, members, picks, now, inflight>>

DeleteSwipe(userId, movieId, mediaType) ==
    /\ IF Missing(userId) \/ Missing(movieId)
       THEN /\ swipes' = swipes
            /\ resp' = [op |-> "DELETE /api/swipe", status |-> 400]
       ELSE /\ swipes' = {r \in swipes : ~(/\ r.user_id = userId
                                            /\ r.movie_id = movieId
                                            /\ r.media_type = Default(mediaType, "movie"))}
            /\ resp' = [op |-> "DELETE /api/swipe", status |-> 200]
    /\ UNCHANGED <<user_providers, swipesUnique, members, picks, now, inflight>>

(***************************************************************************)
(* GET /api/matches                                                        *)
(***************************************************************************)
\* .order('total_match_score', { ascending: false }): every sequence of the rows
\* in non-increasing order of the score; the order of equal scores is the store's.
\* The order of ascending: true.
Ascending(seq) ==
    \A i \in 1..(Len(seq) - 1) : seq[i].total_match_score <= seq[i + 1].total_match_score

Descending(seq) ==
    \A i \in 1..(Len(seq) - 1) : seq[i].total_match_score >= seq[i + 1].total_match_score

OrderedBy(rows) ==
    {seq \in [1..Cardinality(rows) -> rows] :
        /\ \A i, j \in 1..Cardinality(rows) : i # j => seq[i] # seq[j]
        /\ Descending(seq)}

MatchItem(m) ==
    [id |-> m.movie_id, mediaType |-> m.media_type,
     score |-> m.total_match_score, swipeCount |-> m.swipe_count]

\* Promise.all without the inner try: one failed lookup leaves no item.
HydrateAllOrNothing(seq, failed) ==
    IF \E i \in 1..Len(seq) : <<seq[i].movie_id, seq[i].media_type>> \in failed
    THEN <<>>
    ELSE [i \in 1..Len(seq) |-> MatchItem(seq[i])]

\* Promise.all over the rows in order, then filter(Boolean): the lookups in
\* `failed` threw and their items are dropped.
Hydrate(seq, failed) ==
    LET kept(m) == <<m.movie_id, m.media_type>> \notin failed
        live == SelectSeq(seq, kept)
    IN [i \in 1..Len(live) |-> MatchItem(live[i])]

GetMatches(groupId, ord, failed) ==
    /\ IF Missing(groupId)
       THEN resp' = [op |-> "GET /api/matches", status |-> 400]
       ELSE /\ ord \in OrderedBy({m \in group_matches(swipes) : m.group_id = groupId})
            /\ resp' = [op |-> "GET /api/matches", status |-> 200, groupId |-> groupId,
                        matches |-> ord, body |-> Hydrate(ord, failed)]
    /\ UNCHANGED <<user_providers, swipesUnique, members, swipes, picks, now, inflight>>

(***************************************************************************)
(* calculateMatchScore applied to the swipes of one title in one group     *)
(***************************************************************************)
UserSwipe(r) == [userId |-> r.user_id, score |-> r.score]

\* The rows of a set as a list, in any order.
Listings(rows) ==
    {seq \in [1..Cardinality(rows) -> rows] :
        \A i, j \in 1..Cardinality(rows) : i # j => seq[i] # seq[j]}

Verdict(sw, total) ==
    [op |-> "calculateMatchScore", swipes |-> sw, total |-> total,
     result |-> calculateMatchScore(sw, total)]

MatchVerdict(g, mv, mt, total) ==
    /\ \E seq \in Listings(Bucket(swipes, g, mv, mt)) :
          resp' = Verdict([i \in 1..Len(seq) |-> UserSwipe(seq[i])], total)
    /\ UNCHANGED <<user_providers, swipesUnique, members, swipes, picks, now, inflight>>

(***************************************************************************)
(* The swipe store and the matches                                         *)
(***************************************************************************)
(***************************************************************************)
(* /api/tonight.  Time is counted in hours; created_at and the clock are   *)
(* hours since the start of the behaviour.                                 *)
(***************************************************************************)
TWELVE_HOURS == 12

\* Date.now() moves on.
Tick ==
    /\ now' = now + 1
    /\ UNCHANGED <<user_providers, swipesUnique, members, swipes, picks, inflight, resp>>

PickRow(u, g, mv, mt, at) ==
    [user_id |-> u, group_id |-> g, movie_id |-> mv, media_type |-> mt,
     created_at |-> at]

TonightRequest(u, g, mv, mt) ==
    [userId |-> u, groupId |-> g, movieId |-> mv, mediaType |-> mt]

TonightRequests(us, gs, ts) ==
    {TonightRequest(u, g, t[1], t[2]) : u \in us, g \in gs, t \in ts}

IncompleteTonightRequests ==
    {TonightRequest(Absent, "gA", "m1", "movie"),
     TonightRequest("u1", Absent, "m1", "movie"),
     TonightRequest("u1", "gA", Absent, "movie")}

\* Date.now() - TWELVE_HOURS_MS
Cutoff(t) == t - TWELVE_HOURS

\* .gt('created_at', cutoff)
ActiveStrictly(r, cutoff) == r.created_at > cutoff

\* .gte('created_at', cutoff)
Active(r, cutoff) == r.created_at >= cutoff

\* The POST without its clean-up.
PurgeNone(tbl, userId, cutoff) == tbl

\* .delete().eq('user_id', userId).lte('created_at', cutoff)
PurgeInclusive(tbl, userId, cutoff) ==
    {r \in tbl : ~(r.user_id = userId /\ r.created_at <= cutoff)}

\* .delete().eq('user_id', userId).lt('created_at', cutoff)
Purge(tbl, userId, cutoff) ==
    {r \in tbl : ~(r.user_id = userId /\ r.created_at < cutoff)}

TonightConflictTarget == {"user_id", "movie_id", "media_type"}

PostTonight(req) ==
    /\ ActiveGroup(req.userId, req.groupId)
    /\ IF Missing(req.userId) \/ Missing(req.groupId) \/ Missing(req.movieId)
       THEN /\ picks' = picks
            /\ resp' = [op |-> "POST /api/tonight", status |-> 400]
       ELSE LET kept == Purge(picks, req.userId, Cutoff(now))
                row == PickRow(req.userId, req.groupId, req.movieId,
                               Default(req.mediaType, "movie"), now)
                up == Upsert(kept, row, TonightConflictTarget, PicksUnique)
            IN /\ picks' = up.table
               /\ resp' = [op |-> "POST /api/tonight",
                           status |-> IF up.ok THEN 200 ELSE 500]
    /\ UNCHANGED <<user_providers, swipesUnique, members, swipes, now, inflight>>

DeleteTonight(userId, movieId, mediaType) ==
    /\ IF Missing(userId) \/ Missing(movieId)
       THEN /\ picks' = picks
            /\ resp' = [op |-> "DELETE /api/tonight", status |-> 400]
       ELSE /\ picks' = {r \in picks : ~(/\ r.user_id = userId
                                          /\ r.movie_id = movieId
                                          /\ r.media_type = Default(mediaType, "movie"))}
            /\ resp' = [op |-> "DELETE /api/tonight", status |-> 200]
    /\ UNCHANGED <<user_providers, swipesUnique, members, swipes, now, inflight>>

\* movieMap[key].userIds: the user of every row of the key, a user as many
\* times as rows carry it; the order of the rows is the store's.
UserIds(rows) ==
    [u \in {r.user_id : r \in rows} |-> Cardinality({r \in rows : r.user_id = u})]

\* The movieMap: one entry for each `${pick.movie_id}_${pick.media_type}`.
MovieMap(rows) ==
    {[movieId |-> k[1], mediaType |-> k[2],
      userIds |-> UserIds({r \in rows : r.movie_id = k[1] /\ r.media_type = k[2]})] :
        k \in {<<r.movie_id, r.media_type>> : r \in rows}}

\* entry.userIds.length > 0
IsOverlapOfOne(userIds) == BagCardinality(userIds) > 0

\* entry.userIds.length > 1
IsOverlap(userIds) == BagCardinality(userIds) > 1

TonightItem(entry) ==
    [id |-> entry.movieId, mediaType |-> entry.mediaType,
     pickedBy |-> entry.userIds, isOverlap |-> IsOverlap(entry.userIds)]

\* Promise.all over the entries, then filter(Boolean): the lookups in `failed`
\* threw and their entries are dropped.
HydratedPicks(entries, failed) ==
    {TonightItem(e) : e \in {x \in entries : <<x.movieId, x.mediaType>> \notin failed}}

GetTonight(groupId, failed) ==
    /\ IF Missing(groupId)
       THEN resp' = [op |-> "GET /api/tonight", status |-> 400]
       ELSE LET rows == {r \in picks : r.group_id = groupId /\ Active(r, Cutoff(now))}
                validPicks == HydratedPicks(MovieMap(rows), failed)
            IN resp' = [op |-> "GET /api/tonight", status |-> 200,
                        groupId |-> groupId, at |-> now,
                        picks |-> validPicks,
                        overlaps |-> {p \in validPicks : p.isOverlap}]
    /\ UNCHANGED <<user_providers, swipesUnique, members, swipes, picks, now, inflight>>

(***************************************************************************)
(* The Tonight and Watchlist components.  A pick or an item is a title, a  *)
(* pair <<id, mediaType>>.                                                 *)
(***************************************************************************)
\* Tonight: DELETE /api/tonight?userId=&movieId=pick.id&mediaType=
removePick(userId, pick) == DeleteTonight(userId, pick[1], pick[2])

\* The rows GET tonight reads for a group at time t.
ActiveRows(tbl, groupId, t) ==
    {r \in tbl : r.group_id = groupId /\ Active(r, Cutoff(t))}

\* Tonight: the card of a pick of the group is pressed Watching or Watched.
\* Watched un-picks the title for the user; both post the status with score 2.
Tonight_updateStatus(userId, groupId, pick, status) ==
    /\ <<userId, groupId>> \in members
    /\ pick \in {<<r.movie_id, r.media_type>> : r \in ActiveRows(picks, groupId, now)}
    /\ picks' = IF status = "watched"
                THEN {r \in picks : ~(/\ r.user_id = userId
                                      /\ r.movie_id = pick[1]
                                      /\ r.media_type = pick[2])}
                ELSE picks
    /\ LET out == PostSwipeOutcome(swipes, swipesUnique,
                                   SwipeRequest(userId, groupId, pick[1], pick[2], 2, status))
       IN /\ swipes' = out.table
          /\ resp' = [op |-> "POST /api/swipe", status |-> out.status]
    /\ UNCHANGED <<user_providers, swipesUnique, members, now, inflight>>

\* Watchlist: an item is a swipe of the user with score > 0; its status is
\* posted with the item's own score.
Watchlist_updateStatus(userId, groupId, item, newStatus) ==
    /\ <<userId, groupId>> \in members
    /\ item \in {r \in swipes : r.user_id = userId /\ r.score > 0}
    /\ LET out == PostSwipeOutcome(swipes, swipesUnique,
                                   SwipeRequest(userId, groupId, item.movie_id,
                                                item.media_type, item.score, newStatus))
       IN /\ swipes' = out.table
          /\ resp' = [op |-> "POST /api/swipe", status |-> out.status]
    /\ UNCHANGED <<user_providers, swipesUnique, members, picks, now, inflight>>

(***************************************************************************)
(* lib/tmdb: the discovery feed.  A string is the sequence of its tokens:  *)
(* a label, an id and a word are one token each, and so are the separators *)
(* "," and "|" and the blank " ".  An optional value is <<>> when it is    *)
(* undefined and <<v>> when it is v.                                       *)
(***************************************************************************)
None == <<>>
Some(v) == <<v>>
IsSome(o) == o # <<>>
Val(o) == o[1]

\* A defined, non-empty string.
Truthy(o) == IsSome(o) /\ Val(o) # <<>>

\* === 'true'
IsTrue(o) == o = Some(<<"true">>)

\* String.prototype.split(sep)
RECURSIVE SplitOn(_, _)
SplitOn(text, sep) ==
    IF \A i \in 1..Len(text) : text[i] # sep
    THEN <<text>>
    ELSE LET i == CHOOSE k \in 1..Len(text) :
                      text[k] = sep /\ \A j \in 1..(k - 1) : text[j] # sep
         IN <<SubSeq(text, 1, i - 1)>> \o SplitOn(SubSeq(text, i + 1, Len(text)), sep)

\* Array.prototype.join(sep)
RECURSIVE JoinWith(_, _)
JoinWith(pieces, sep) ==
    IF pieces = <<>> THEN <<>>
    ELSE IF Len(pieces) = 1 THEN pieces[1]
    ELSE pieces[1] \o <<sep>> \o JoinWith(Tail(pieces), sep)

RECURSIVE TrimStart(_)
TrimStart(text) ==
    IF text # <<>> /\ Head(text) = " " THEN TrimStart(Tail(text)) ELSE text

RECURSIVE TrimEnd(_)
TrimEnd(text) ==
    IF text # <<>> /\ text[Len(text)] = " "
    THEN TrimEnd(SubSeq(text, 1, Len(text) - 1))
    ELSE text

\* String.prototype.trim()
Trim(text) == TrimEnd(TrimStart(text))

\* [...new Set(pieces)]: each piece once, where it first occurs.
Unique(pieces) ==
    LET first(i) == \A j \in 1..(i - 1) : pieces[j] # pieces[i]
        firsts == SelectSeq([i \in 1..Len(pieces) |-> i], first)
    IN [k \in 1..Len(firsts) |-> pieces[firsts[k]]]

Digit(d) ==
    CASE d = 0 -> "0" [] d = 1 -> "1" [] d = 2 -> "2" [] d = 3 -> "3" [] d = 4 -> "4"
      [] d = 5 -> "5" [] d = 6 -> "6" [] d = 7 -> "7" [] d = 8 -> "8" [] d = 9 -> "9"

\* Number.prototype.toString() of a page number, one token per digit.
RECURSIVE toString(_)
toString(n) ==
    IF n < 10 THEN <<Digit(n)>> ELSE Append(toString(n \div 10), Digit(n % 10))

\* The endpoints.
SearchEndpoint == "/search/multi"
TrendingEndpoint(type) == IF type = "all" THEN "/trending/all/day"
                          ELSE IF type = "movie" THEN "/trending/movie/day"
                          ELSE "/trending/tv/day"
DiscoverEndpoint(type) == IF type = "movie" THEN "/discover/movie" ELSE "/discover/tv"

\* MOVIE_GENRES and TV_GENRES, as <<id, label>>.
MOVIE_GENRES ==
    {<<"28", "Action">>, <<"12", "Adventure">>, <<"16", "Animation">>, <<"35", "Comedy">>,
     <<"80", "Crime">>, <<"99", "Documentary">>, <<"18", "Drama">>, <<"10751", "Family">>,
     <<"14", "Fantasy">>, <<"36", "History">>, <<"27", "Horror">>, <<"10402", "Music">>,
     <<"9648", "Mystery">>, <<"10749", "Romance">>, <<"878", "Sci-Fi">>, <<"53", "Thriller">>,
     <<"10752", "War">>, <<"37", "Western">>}

TV_GENRES ==
    {<<"10759", "Action">>, <<"16", "Animation">>, <<"35", "Comedy">>, <<"80", "Crime">>,
     <<"99", "Documentary">>, <<"18", "Drama">>, <<"10751", "Family">>, <<"10762", "Kids">>,
     <<"9648", "Mystery">>, <<"10764", "Reality">>, <<"10765", "Sci-Fi">>, <<"10766", "Soap">>,
     <<"10767", "Talk">>, <<"10768", "War">>, <<"37", "Western">>}

\* The ids of a label in one table; no label has two.
genreLabelToIds(label, table) ==
    IF \E e \in table : <<e[2]>> = label
    THEN <<(CHOOSE e \in table : <<e[2]>> = label)[1]>>
    ELSE <<>>

RECURSIVE GenreIdsOf(_, _)
GenreIdsOf(labels, table) ==
    IF labels = <<>> THEN <<>>
    ELSE genreLabelToIds(Head(labels), table) \o GenreIdsOf(Tail(labels), table)

\* ids.join(',')
resolveGenreIds(labels, type) ==
    LET ids == GenreIdsOf(labels, IF type = "movie" THEN MOVIE_GENRES ELSE TV_GENRES)
    IN JoinWith([i \in 1..Len(ids) |-> <<ids[i]>>], ",")

AGE_RATINGS ==
    <<[label |-> <<"All Ages">>, movie |-> <<>>, tv |-> <<>>],
      [label |-> <<"Family (G/PG)">>,
       movie |-> <<"G", "|", "PG">>,
       tv |-> <<"TV-Y", "|", "TV-Y7", "|", "TV-G", "|", "TV-PG">>],
      [label |-> <<"Teen (PG-13)">>,
       movie |-> <<"G", "|", "PG", "|", "PG-13">>,
       tv |-> <<"TV-Y", "|", "TV-Y7", "|", "TV-G", "|", "TV-PG", "|", "TV-14">>],
      [label |-> <<"Mature (R)">>,
       movie |-> <<"G", "|", "PG", "|", "PG-13", "|", "R">>,
       tv |-> <<"TV-Y", "|", "TV-Y7", "|", "TV-G", "|", "TV-PG", "|", "TV-14", "|", "TV-MA">>]>>

\* The runtime labels of the filter panel (the middle one is written with an
\* en dash in the source).
ShortLabel == <<"< 90 min">>
MediumLabel == <<"90-120 min">>
LongLabel == <<"2+ hours">>

Includes(pieces, piece) == \E i \in 1..Len(pieces) : pieces[i] = piece

\* params[key] = value
Put(params, key, value) ==
    [k \in DOMAIN params \cup {key} |-> IF k = key THEN value ELSE params[k]]

\* Watch Providers (Streaming Services)
WatchProviderParams(params, filters) ==
    IF Truthy(filters.watchProviders)
    THEN Put(Put(params, "with_watch_providers", Val(filters.watchProviders)),
             "watch_region", <<"US">>)
    ELSE params

\* "Just Watch" Filter
FreeParams(params, filters) ==
    IF IsTrue(filters.isFree)
    THEN Put(Put(params, "with_watch_monetization_types",
                 <<"flatrate", "|", "free", "|", "ads">>),
             "watch_region", <<"US">>)
    ELSE params

ReleaseDateKey(mediaType, bound) ==
    IF mediaType = "movie"
    THEN (IF bound = "lte" THEN "primary_release_date.lte" ELSE "primary_release_date.gte")
    ELSE (IF bound = "lte" THEN "first_air_date.lte" ELSE "first_air_date.gte")

\* CLASSIC Filter (Older & Highly Rated)
ClassicParams(params, mediaType, filters) ==
    IF IsTrue(filters.isClassic)
    THEN LET floored == IF "vote_average.gte" \notin DOMAIN params
                           \/ params["vote_average.gte"] = <<>>
                        THEN Put(params, "vote_average.gte", <<"7.0">>)
                        ELSE params
         IN Put(floored, ReleaseDateKey(mediaType, "lte"), <<"2005-01-01">>)
    ELSE params

\* Genre
GenreParams(params, mediaType, filters) ==
    IF Truthy(filters.genres)
    THEN LET pieces == SplitOn(Val(filters.genres), ",")
             genreLabels == [i \in 1..Len(pieces) |-> Trim(pieces[i])]
             ids == resolveGenreIds(genreLabels, mediaType)
         IN IF ids # <<>> THEN Put(params, "with_genres", ids) ELSE params
    ELSE params

\* The certifications of the selected labels, one entry for each label that
\* AGE_RATINGS knows and that has certifications for the media type.
RECURSIVE CombinedCerts(_, _)
CombinedCerts(selectedLabels, mediaType) ==
    IF selectedLabels = <<>> THEN <<>>
    ELSE LET label == Head(selectedLabels)
             rest == CombinedCerts(Tail(selectedLabels), mediaType)
         IN IF \E i \in 1..Len(AGE_RATINGS) : AGE_RATINGS[i].label = label
            THEN LET match == AGE_RATINGS[CHOOSE i \in 1..Len(AGE_RATINGS) :
                                  /\ AGE_RATINGS[i].label = label
                                  /\ \A j \in 1..(i - 1) : AGE_RATINGS[j].label # label]
                     certs == IF mediaType = "movie" THEN match.movie ELSE match.tv
                 IN IF certs # <<>> THEN <<certs>> \o rest ELSE rest
            ELSE rest

\* combinedCerts.join('|') with nothing removed.
RepeatedCerts(combinedCerts) == JoinWith(combinedCerts, "|")

\* [...new Set(combinedCerts.join('|').split('|'))].join('|')
UniqueCerts(combinedCerts) ==
    JoinWith(Unique(SplitOn(JoinWith(combinedCerts, "|"), "|")), "|")

\* Age rating (Multi-select)
AgeRatingParams(params, mediaType, filters) ==
    IF Truthy(filters.ageRating)
    THEN LET combinedCerts == CombinedCerts(SplitOn(Val(filters.ageRating), ","), mediaType)
         IN IF Len(combinedCerts) > 0
            THEN Put(Put(params, "certification_country", <<"US">>),
                     "certification", UniqueCerts(combinedCerts))
            ELSE params
    ELSE params

\* Rating
RatingParams(params, filters) ==
    IF Truthy(filters.minRating)
    THEN Put(params, "vote_average.gte", Val(filters.minRating))
    ELSE params

\* The runtime branch that keeps the first selected bucket alone.
RuntimeParamsOfFirst(params, mediaType, filters) ==
    IF mediaType = "movie" /\ Truthy(filters.runtimes)
    THEN LET selectedLabels == SplitOn(Val(filters.runtimes), ",")
         IN IF Includes(selectedLabels, ShortLabel)
            THEN Put(params, "with_runtime.lte", <<"90">>)
            ELSE IF Includes(selectedLabels, MediumLabel)
            THEN Put(Put(params, "with_runtime.gte", <<"90">>), "with_runtime.lte", <<"120">>)
            ELSE IF Includes(selectedLabels, LongLabel)
            THEN Put(params, "with_runtime.gte", <<"120">>)
            ELSE params
    ELSE params

\* Runtime (Multi-select) - Combine ranges
RuntimeParams(params, mediaType, filters) ==
    IF mediaType = "movie" /\ Truthy(filters.runtimes)
    THEN LET selectedLabels == SplitOn(Val(filters.runtimes), ",")
             hasShort == Includes(selectedLabels, ShortLabel)
             hasMedium == Includes(selectedLabels, MediumLabel)
             hasLong == Includes(selectedLabels, LongLabel)
         IN IF hasShort /\ hasMedium /\ hasLong THEN params
            ELSE IF hasShort /\ hasMedium THEN Put(params, "with_runtime.lte", <<"120">>)
            ELSE IF hasMedium /\ hasLong THEN Put(params, "with_runtime.gte", <<"90">>)
            ELSE IF hasShort /\ hasLong THEN params
            ELSE IF hasShort THEN Put(params, "with_runtime.lte", <<"90">>)
            ELSE IF hasMedium
            THEN Put(Put(params, "with_runtime.gte", <<"90">>), "with_runtime.lte", <<"120">>)
            ELSE IF hasLong THEN Put(params, "with_runtime.gte", <<"120">>)
            ELSE params
    ELSE params

\* sixMonthsAgo.toISOString().split('T')[0]: the day six months before the call.
SixMonthsAgo == <<"six months ago">>

\* New releases whatever isClassic says.
NewReleasesParamsAlways(params, mediaType, filters) ==
    IF IsTrue(filters.newReleases)
    THEN Put(params, ReleaseDateKey(mediaType, "gte"), SixMonthsAgo)
    ELSE params

\* New releases (mutually exclusive with Classic effectively)
NewReleasesParams(params, mediaType, filters) ==
    IF IsTrue(filters.newReleases) /\ ~IsTrue(filters.isClassic)
    THEN Put(params, ReleaseDateKey(mediaType, "gte"), SixMonthsAgo)
    ELSE params

\* filters.page || 1
PageOr1(filters) ==
    IF IsSome(filters.page) /\ Val(filters.page) # 0 THEN Val(filters.page) ELSE 1

DiscoverBaseParams(filters) ==
    [k \in {"page", "sort_by", "include_adult", "vote_count.gte"} |->
        CASE k = "page" -> toString(PageOr1(filters))
          [] k = "sort_by" -> IF Truthy(filters.sortBy) THEN Val(filters.sortBy)
                              ELSE <<"popularity.desc">>
          [] k = "include_adult" -> <<"false">>
          [] k = "vote_count.gte" -> <<"50">>]

Request(endpoint, params) == [endpoint |-> endpoint, params |-> params]

\* The request fetchFilteredDiscover sends.
fetchFilteredDiscover(mediaType, filters) ==
    LET p1 == WatchProviderParams(DiscoverBaseParams(filters), filters)
        p2 == FreeParams(p1, filters)
        p3 == ClassicParams(p2, mediaType, filters)
        p4 == GenreParams(p3, mediaType, filters)
        p5 == AgeRatingParams(p4, mediaType, filters)
        p6 == RatingParams(p5, filters)
        p7 == RuntimeParams(p6, mediaType, filters)
        p8 == NewReleasesParams(p7, mediaType, filters)
    IN Request(DiscoverEndpoint(mediaType), p8)

\* const { page = 1, type = 'all', query } = filters
PageOf(filters) == IF IsSome(filters.page) THEN Val(filters.page) ELSE 1
TypeOf(filters) == IF IsSome(filters.type) THEN Val(filters.type) ELSE "all"

\* query && query.trim().length > 0
IsSearch(filters) == Truthy(filters.query) /\ Len(Trim(Val(filters.query))) > 0

\* The search request with the sort order added.
SearchParamsSorted(filters) ==
    [k \in {"query", "page", "include_adult", "sort_by"} |->
        CASE k = "query" -> Val(filters.query)
          [] k = "page" -> toString(PageOf(filters))
          [] k = "include_adult" -> <<"false">>
          [] k = "sort_by" -> <<"popularity.desc">>]

SearchParams(filters) ==
    [k \in {"query", "page", "include_adult"} |->
        CASE k = "query" -> Val(filters.query)
          [] k = "page" -> toString(PageOf(filters))
          [] k = "include_adult" -> <<"false">>]

\* hasFilters without its isClassic test.
hasFiltersButClassic(filters) ==
    \/ Truthy(filters.genres)
    \/ Truthy(filters.ageRating)
    \/ Truthy(filters.minRating)
    \/ Truthy(filters.runtimes)
    \/ IsTrue(filters.newReleases)
    \/ Truthy(filters.watchProviders)
    \/ IsTrue(filters.isFree)

hasFilters(filters) ==
    \/ Truthy(filters.genres)
    \/ Truthy(filters.ageRating)
    \/ Truthy(filters.minRating)
    \/ Truthy(filters.runtimes)
    \/ IsTrue(filters.newReleases)
    \/ Truthy(filters.watchProviders)
    \/ IsTrue(filters.isFree)
    \/ IsTrue(filters.isClassic)

\* Which return statement of getDiscoveryFeed is reached.
Mode(filters) ==
    IF IsSearch(filters) THEN "search"
    ELSE IF ~hasFilters(filters) /\ TypeOf(filters) = "all" THEN "trending"
    ELSE IF TypeOf(filters) = "all" /\ hasFilters(filters) THEN "fan-out"
    ELSE "single-type"

\* The provider requests of one call, in the order they are issued.
Requests(filters) ==
    CASE Mode(filters) = "search" -> <<Request(SearchEndpoint, SearchParams(filters))>>
      [] Mode(filters) = "trending" ->
            <<Request(TrendingEndpoint("all"),
                      [k \in {"page"} |-> toString(PageOf(filters))])>>
      [] Mode(filters) = "fan-out" ->
            <<fetchFilteredDiscover("movie", filters), fetchFilteredDiscover("tv", filters)>>
      [] Mode(filters) = "single-type" ->
            <<fetchFilteredDiscover(TypeOf(filters), filters)>>

\* interleave that stops with the shorter list.
interleaveShort(a, b) ==
    LET n == IF Len(a) < Len(b) THEN Len(a) ELSE Len(b)
    IN [i \in 1..(2 * n) |-> IF i % 2 = 1 THEN a[(i + 1) \div 2] ELSE b[i \div 2]]

RECURSIVE interleave(_, _)
interleave(a, b) ==
    IF a = <<>> THEN b
    ELSE IF b = <<>> THEN a
    ELSE <<Head(a), Head(b)>> \o interleave(Tail(a), Tail(b))

\* (data.results || []).map(r => ({ ...r, media_type }))
Tagged(data, mediaType) ==
    LET results == IF IsSome(data.results) THEN Val(data.results) ELSE <<>>
    IN [i \in 1..Len(results) |-> [id |-> results[i].id, media_type |-> mediaType]]

MathMin(x, y) == IF x <= y THEN x ELSE y

\* What getDiscoveryFeed returns when the provider answers a request to
\* endpoint e with reply[e].
Feed(filters, reply) ==
    CASE Mode(filters) = "search" -> reply[SearchEndpoint]
      [] Mode(filters) = "trending" -> reply[TrendingEndpoint("all")]
      [] Mode(filters) = "fan-out" ->
            LET movieData == reply[DiscoverEndpoint("movie")]
                tvData == reply[DiscoverEndpoint("tv")]
            IN [results |-> Some(interleave(Tagged(movieData, "movie"), Tagged(tvData, "tv"))),
                page |-> PageOf(filters),
                total_pages |-> MathMin(movieData.total_pages, tvData.total_pages)]
      [] Mode(filters) = "single-type" ->
            LET data == reply[DiscoverEndpoint(TypeOf(filters))]
            IN [data EXCEPT !.results = Some(Tagged(data, TypeOf(filters)))]

getDiscoveryFeed(filters, reply) ==
    /\ resp' = [op |-> "getDiscoveryFeed", filters |-> filters, provider |-> reply,
                requests |-> Requests(filters), body |-> Feed(filters, reply)]
    /\ UNCHANGED <<user_providers, swipesUnique, members, swipes, picks, now, inflight>>

(***************************************************************************)
(* /api/providers and GET /api/discovery.  A provider id is a number; a    *)
(* lookup of the store gives the rows it selects in the store's order, no  *)
(* data when the client reports an error, or throws.                       *)
(***************************************************************************)
ProviderIds == {8, 9}

ProviderRow(u, p) == [user_id |-> u, provider_id |-> p]

\* UNIQUE(user_id, provider_id): an insert of rows that repeats an id fails.
PostProviders(userId, providerIds) ==
    /\ IF Missing(userId) \/ ~IsSome(providerIds)
       THEN /\ user_providers' = user_providers
            /\ resp' = [op |-> "POST /api/providers", status |-> 400]
       ELSE LET ids == Val(providerIds)
                kept == {r \in user_providers : r.user_id # userId}
                rows == {ProviderRow(userId, ids[i]) : i \in 1..Len(ids)}
                insertError == Cardinality(rows) < Len(ids)
            IN /\ user_providers' = IF insertError THEN kept ELSE kept \cup rows
               /\ resp' = [op |-> "POST /api/providers",
                           status |-> IF insertError THEN 500 ELSE 200]
    /\ UNCHANGED <<swipesUnique, members, swipes, picks, now, inflight>>

Threw == [threw |-> TRUE, data |-> None]
NoData == [threw |-> FALSE, data |-> None]
Selected(seq) == [threw |-> FALSE, data |-> Some(seq)]
NotAsked == Selected(<<>>)

\* The rows a lookup answers are the selected rows, each once.
Answers(lookup, rows) ==
    \/ lookup \in {Threw, NoData}
    \/ /\ IsSome(lookup.data)
       /\ Len(Val(lookup.data)) = Cardinality(rows)
       /\ {Val(lookup.data)[i] : i \in 1..Len(Val(lookup.data))} = rows

\* .from('group_members').select('user_id').eq('group_id', groupId)
GroupMembers(groupId) == {m \in members : m[2] = groupId}

\* members.map(m => m.user_id)
MemberIds(memberLookup) ==
    {Val(memberLookup.data)[i][1] : i \in 1..Len(Val(memberLookup.data))}

\* Which of the two lookups the handler makes.
AsksMembers(groupId) == ~Missing(groupId)
HasMembers(memberLookup) ==
    ~memberLookup.threw /\ IsSome(memberLookup.data) /\ Len(Val(memberLookup.data)) > 0
AsksProviders(groupId, userId, memberLookup) ==
    IF AsksMembers(groupId) THEN HasMembers(memberLookup) ELSE ~Missing(userId)

\* .from('user_providers').select('provider_id').in('user_id', memberIds), or
\* .eq('user_id', userId) without a group
ProviderRowsAsked(groupId, userId, memberLookup) ==
    IF AsksMembers(groupId)
    THEN {r \in user_providers : r.user_id \in MemberIds(memberLookup)}
    ELSE {r \in user_providers : r.user_id = userId}

\* providers.map(p => p.provider_id)
providerIdsOf(providerLookup) ==
    IF IsSome(providerLookup.data)
    THEN [i \in 1..Len(Val(providerLookup.data)) |-> Val(providerLookup.data)[i].provider_id]
    ELSE <<>>

\* The intersection of the members' selections instead of their union.
DedupShared(providerIds) ==
    LET once == Unique(providerIds)
        twice(p) == Cardinality({i \in 1..Len(providerIds) : providerIds[i] = p}) > 1
    IN SelectSeq(once, twice)

\* [...new Set(providerIds)]
Dedup(providerIds) == Unique(providerIds)

\* A lookup that fails leaves the filter of a default list of providers.
watchProvidersOrDefault(groupId, userId, memberLookup, providerLookup) ==
    LET asked == AsksProviders(groupId, userId, memberLookup)
        failed == \/ AsksMembers(groupId) /\ ~IsSome(memberLookup.data)
                  \/ asked /\ ~IsSome(providerLookup.data)
        providerIds == IF asked THEN providerIdsOf(providerLookup) ELSE <<>>
        ids == Dedup(providerIds)
    IN IF failed THEN Some(<<"8">>)
       ELSE IF Len(providerIds) > 0
       THEN Some(JoinWith([i \in 1..Len(ids) |-> toString(ids[i])], "|"))
       ELSE None

\* let watchProviders ... try { ... } catch { }
watchProvidersOf(groupId, userId, memberLookup, providerLookup) ==
    LET asked == AsksProviders(groupId, userId, memberLookup)
        threw == \/ AsksMembers(groupId) /\ memberLookup.threw
                 \/ asked /\ providerLookup.threw
        providerIds == IF asked THEN providerIdsOf(providerLookup) ELSE <<>>
        ids == Dedup(providerIds)
    IN IF ~threw /\ Len(providerIds) > 0
       THEN Some(JoinWith([i \in 1..Len(ids) |-> toString(ids[i])], "|"))
       ELSE None

DigitValue(c) ==
    CASE c = "0" -> 0 [] c = "1" -> 1 [] c = "2" -> 2 [] c = "3" -> 3 [] c = "4" -> 4
      [] c = "5" -> 5 [] c = "6" -> 6 [] c = "7" -> 7 [] c = "8" -> 8 [] c = "9" -> 9

\* parseInt of a string of digits
RECURSIVE parseInt(_)
parseInt(text) ==
    IF Len(text) = 1 THEN DigitValue(text[1])
    ELSE 10 * parseInt(SubSeq(text, 1, Len(text) - 1)) + DigitValue(text[Len(text)])

\* searchParams.get(name) || undefined
OrUndefined(o) == IF Truthy(o) THEN o ELSE None

\* The query string of a request: groupId and userId are ids or Absent,
\* likedByMember is a user id or None, the others are texts or None.
NoQuery ==
    [groupId |-> Absent, userId |-> Absent, page |-> None, type |-> None,
     genres |-> None, ageRating |-> None, minRating |-> None, runtimes |-> None,
     language |-> None, newReleases |-> None, sortBy |-> None, query |-> None,
     isFree |-> None, isClassic |-> None, familyLiked |-> None, likedByMember |-> None]

\* const filters: DiscoveryFilters = { ... }
FiltersOf(q, watchProviders) ==
    [page |-> Some(parseInt(IF Truthy(q.page) THEN Val(q.page) ELSE <<"1">>)),
     type |-> IF IsSome(q.type) THEN q.type ELSE Some("all"),
     genres |-> OrUndefined(q.genres),
     ageRating |-> OrUndefined(q.ageRating),
     minRating |-> OrUndefined(q.minRating),
     runtimes |-> OrUndefined(q.runtimes),
     language |-> OrUndefined(q.language),
     newReleases |-> OrUndefined(q.newReleases),
     sortBy |-> OrUndefined(q.sortBy),
     watchProviders |-> watchProviders,
     query |-> OrUndefined(q.query),
     isFree |-> OrUndefined(q.isFree),
     isClassic |-> OrUndefined(q.isClassic),
     familyLiked |-> OrUndefined(q.familyLiked),
     likedByMember |-> q.likedByMember]

\* filters.familyLiked === 'true' || filters.likedByMember
WantsFamilyLiked(filters) == IsTrue(filters.familyLiked) \/ IsSome(filters.likedByMember)

\* .from('swipes').select('movie_id, media_type').eq('group_id', groupId)
\* .gte('score', 2), of the named member or of everybody but the requester
LikedRows(groupId, userId, filters) ==
    {r \in swipes :
        /\ r.group_id = groupId
        /\ r.score >= 2
        /\ IF IsSome(filters.likedByMember)
           THEN r.user_id = Val(filters.likedByMember)
           ELSE r.user_id # userId}

pageSize == 20

\* Array.from(new Map(likedSwipes.map(s => [`${s.movie_id}_${s.media_type}`, s])).values())
uniqueItems(likedSwipes) ==
    Unique([i \in 1..Len(likedSwipes) |->
               <<likedSwipes[i].movie_id, likedSwipes[i].media_type>>])

\* const page = filters.page || 1
FamilyPage(filters) == IF Val(filters.page) = 0 THEN 1 ELSE Val(filters.page)

\* uniqueItems.slice(start, end)
Slice(items, start, end) ==
    LET to == IF end < Len(items) THEN end ELSE Len(items)
    IN IF start >= to THEN <<>> ELSE SubSeq(items, start + 1, to)

pageItems(items, page) == Slice(items, (page - 1) * pageSize, (page - 1) * pageSize + pageSize)

\* Math.ceil(n / d)
MathCeil(n, d) == (n + d - 1) \div d

\* Promise.all over the page's items, then filter(Boolean): the lookups in
\* `failed` threw.
HydratedItems(items, failed) ==
    LET kept(t) == t \notin failed
        live == SelectSeq(items, kept)
    IN [i \in 1..Len(live) |-> [id |-> live[i][1], media_type |-> live[i][2]]]

\* The answer of the family-liked branch.
FamilyLiked(filters, likedLookup, failed) ==
    IF likedLookup.threw
    THEN [status |-> 500, path |-> "family-liked", error |-> TRUE]
    ELSE IF ~IsSome(likedLookup.data) \/ Len(Val(likedLookup.data)) = 0
    THEN [status |-> 200, path |-> "family-liked", error |-> FALSE,
          results |-> <<>>, page |-> 1, total_pages |-> 1, message |-> FALSE]
    ELSE LET items == uniqueItems(Val(likedLookup.data))
         IN [status |-> 200, path |-> "family-liked", error |-> FALSE,
             results |-> HydratedItems(pageItems(items, FamilyPage(filters)), failed),
             page |-> FamilyPage(filters),
             total_pages |-> MathCeil(Len(items), pageSize), message |-> FALSE]

\* The family-liked branch is the one taken.
IsFamilyLiked(q, filters) ==
    WantsFamilyLiked(filters) /\ ~Missing(q.groupId) /\ ~Missing(q.userId)

\* The answer of GET /api/discovery; catalogDown: the catalog's feed request throws.
DiscoveryAnswer(q, filters, likedLookup, failed, reply, catalogDown) ==
    IF IsFamilyLiked(q, filters)
    THEN FamilyLiked(filters, likedLookup, failed)
    ELSE IF WantsFamilyLiked(filters)
    THEN [status |-> 200, path |-> "no-context", error |-> FALSE,
          results |-> <<>>, page |-> 1, total_pages |-> 1, message |-> TRUE]
    ELSE IF catalogDown
    THEN [status |-> 500, path |-> "feed", error |-> TRUE,
          requests |-> Requests(filters)]
    ELSE [status |-> 200, path |-> "feed", error |-> FALSE,
          requests |-> Requests(filters), body |-> Feed(filters, reply)]

\* A lookup the handler makes answers the rows it selects; one it does not
\* make has no outcome.
Asked(lookup, asked, rows) == IF asked THEN Answers(lookup, rows) ELSE lookup = NotAsked

GetDiscovery(q, memberLookup, providerLookup, likedLookup, failed, reply, catalogDown) ==
    /\ Asked(memberLookup, AsksMembers(q.groupId), GroupMembers(q.groupId))
    /\ Asked(providerLookup, AsksProviders(q.groupId, q.userId, memberLookup),
             ProviderRowsAsked(q.groupId, q.userId, memberLookup))
    /\ LET filters == FiltersOf(q, watchProvidersOf(q.groupId, q.userId,
                                                    memberLookup, providerLookup))
       IN /\ Asked(likedLookup, IsFamilyLiked(q, filters),
                   LikedRows(q.groupId, q.userId, filters))
          /\ resp' = [op |-> "GET /api/discovery", query |-> q, filters |-> filters,
                      answer |-> DiscoveryAnswer(q, filters, likedLookup, failed,
                                                 reply, catalogDown)]
    /\ UNCHANGED <<user_providers, swipesUnique, members, swipes, picks, now, inflight>>

NoResponse == [op |-> "none"]

(***************************************************************************)
(* Specifications.  Each draws the requests from small sets: the users us, *)
(* the groups gs, the titles ts, the scores scs and the statuses sts, and  *)
(* lets table swipes grow to `limit` rows.                                 *)
(***************************************************************************)
Membership ==
    \/ \E u \in Users, g \in Groups : joinGroup(u, g)
    \/ \E u \in Users, g \in Groups : leaveGroup(u, g)

Swiping(us, gs, ts, scs, sts, limit) ==
    \/ \E req \in CompleteRequests(us, gs, ts, scs, sts) \cup IncompleteRequests :
          PostSwipe(req) /\ Cardinality(swipes') <= limit
    \/ \E u \in us, g \in gs, t \in ts, d \in Directions, st \in sts :
          /\ DirectionScore(d) \in scs
          /\ handleSwipe(u, g, t[1], t[2], d, st)
          /\ Cardinality(swipes') <= limit
    \/ \E u \in us \cup {Absent}, t \in ts : DeleteSwipe(u, t[1], t[2])

Matching(gs, ts) ==
    \E g \in gs \cup {Absent}, failed \in SUBSET ts :
       \E ord \in IF g = Absent THEN {<<>>}
                  ELSE OrderedBy({m \in group_matches(swipes) : m.group_id = g}) :
          GetMatches(g, ord, failed)

Judging(gs, ts) ==
    \E g \in gs, t \in ts, total \in 0..MaxTotal : MatchVerdict(g, t[1], t[2], total)

OneTitle == {<<"m1", "movie">>}
TwoTitles == {<<"m1", "movie">>, <<"m1", "tv">>}
ThreeTitles == {<<"m1", "movie">>, <<"m1", "tv">>, <<"m2", "movie">>}

\* Swipes, joins, leaves and reads of the matches.
Init ==
    /\ swipesUnique \in {SwipesUniqueV1, SwipesUniqueV2}
    /\ members = {}
    /\ swipes = {}
    /\ picks = {}
    /\ now = 0
    /\ user_providers = {}
    /\ inflight = <<>>
    /\ resp = NoResponse

Next ==
    \/ Membership
    \/ Swiping(Users, Groups, TwoTitles, Scores, {"swiped"}, MaxRows)
    \/ Matching(Groups, TwoTitles)

Spec == Init /\ [][Next]_vars

\* Every user has joined every group, and nobody joins or leaves; the users
\* rate one title in both groups.
InitJoined ==
    /\ swipesUnique \in {SwipesUniqueV1, SwipesUniqueV2}
    /\ members = Users \X Groups
    /\ swipes = {}
    /\ picks = {}
    /\ now = 0
    /\ user_providers = {}
    /\ inflight = <<>>
    /\ resp = NoResponse

NextMatches ==
    \/ Swiping(Users, Groups, OneTitle, Scores, {"swiped"}, MaxRows)
    \/ Matching(Groups, OneTitle)
    \/ Judging(Groups, OneTitle)

SpecMatches == InitJoined /\ [][NextMatches]_vars

\* The ranking of one group's matches: three titles, each liked by its raters.
NextRanking ==
    \/ Swiping(Users, {"gA"}, ThreeTitles, {2, 3}, {"swiped"}, MaxRanked)
    \/ Matching({"gA"}, ThreeTitles)

SpecRanking == InitJoined /\ [][NextRanking]_vars

\* calculateMatchScore on every list of at most MaxLen swipes and every group
\* size up to MaxTotal; the i-th swipe is the i-th member's.
ScoreLists == UNION {[1..n -> Scores] : n \in 0..MaxLen}

InitCalc ==
    /\ swipesUnique = SwipesUniqueV2
    /\ members = {}
    /\ swipes = {}
    /\ picks = {}
    /\ now = 0
    /\ user_providers = {}
    /\ inflight = <<>>
    /\ resp \in {[op |-> "call calculateMatchScore",
                  swipes |-> [i \in 1..Len(sc) |-> [userId |-> i, score |-> sc[i]]],
                  total |-> total] : sc \in ScoreLists, total \in 0..MaxTotal}

ApplyCalc ==
    /\ resp.op = "call calculateMatchScore"
    /\ resp' = Verdict(resp.swipes, resp.total)
    /\ UNCHANGED <<user_providers, swipesUnique, members, swipes, picks, now, inflight>>

SpecCalc == InitCalc /\ [][ApplyCalc]_vars

\* POST /api/swipe requests served concurrently, on one title in one group,
\* from an empty table.
NextSwipe ==
    \/ \E req \in CompleteRequests(Users, {"gA"}, {<<"m1", Absent>>, <<"m1", "tv">>},
                                   Scores, Statuses \cup {Absent})
                    \cup IncompleteRequests :
          Len(inflight) < MaxInflight /\ ReceiveSwipe(req)
    \/ \E i \in 1..MaxInflight : CompleteSwipe(i)

SpecSwipe == InitJoined /\ [][NextSwipe]_vars

(***************************************************************************)
(* Properties                                                              *)
(***************************************************************************)
IsVerdict == resp.op = "calculateMatchScore"
IsMatches == resp.op = "GET /api/matches" /\ resp.status = 200

ScoresOf(sw) == {sw[i].score : i \in 1..Len(sw)}

\* C1: a swipe of score 0 vetoes the title: calculateMatchScore returns no
\* verdict for a list that holds a score 0, whatever the other scores and the
\* group size, and the group_matches view has no row for a (group, title,
\* media type) that has a swipe of score 0 in table swipes.
C1_Veto ==
    /\ IsVerdict /\ 0 \in ScoresOf(resp.swipes) => resp.result = Null
    /\ \A m \in group_matches(swipes) : \A r \in swipes :
          /\ r.group_id = m.group_id
          /\ r.movie_id = m.movie_id
          /\ r.media_type = m.media_type
          => r.score # 0

\* Two members rated the title in gA, one with 0 and one with 3; the list is
\* complete for a group of two and there is no verdict and no row of the view.
C1_Witness ==
    /\ IsVerdict
    /\ Len(resp.swipes) = 2
    /\ resp.total = 2
    /\ ScoresOf(resp.swipes) = {0, 3}
    /\ resp.result = Null
    /\ \E r \in swipes : r.score = 0 /\ r.group_id = "gA"
    /\ \E r \in swipes : r.score = 3 /\ r.group_id = "gA"
    /\ group_matches(swipes) = {}

\* The number of swipes of the list with score k.
CountOf(sw, k) == Cardinality({i \in 1..Len(sw) : sw[i].score = k})

\* C2: calculateMatchScore returns the sum of the scores exactly when the list
\* is complete (as long as the group is large), every score is above 0 and some
\* score is at least 2; otherwise it returns no verdict.
C2_MatchScore ==
    IsVerdict =>
        LET sw == resp.swipes
            matched == /\ Len(sw) >= resp.total
                       /\ \A s \in ScoresOf(sw) : s > 0
                       /\ \E s \in ScoresOf(sw) : s >= 2
            sum == CountOf(sw, 1) + 2 * CountOf(sw, 2) + 3 * CountOf(sw, 3)
        IN resp.result = IF matched THEN sum ELSE Null

\* [3, 2] in a group of two gives 5.
C2_Witness ==
    /\ IsVerdict
    /\ resp.total = 2
    /\ Len(resp.swipes) = 2
    /\ resp.swipes[1].score = 3
    /\ resp.swipes[2].score = 2
    /\ resp.result = 5

RECURSIVE IsSubsequence(_, _)
IsSubsequence(a, b) ==
    IF a = <<>> THEN TRUE
    ELSE IF b = <<>> THEN FALSE
    ELSE IF Head(a) = Head(b) THEN IsSubsequence(Tail(a), Tail(b))
    ELSE IsSubsequence(a, Tail(b))

\* C5: the body of GET /api/matches lists matches of the group in non-increasing
\* order of the aggregate score, and is the list the view returned with the
\* items of the failed lookups taken out, the others in their order.
C5_Ranked ==
    IsMatches =>
        /\ \A i, j \in 1..Len(resp.body) : i < j => resp.body[i].score >= resp.body[j].score
        /\ IsSubsequence(resp.body, [i \in 1..Len(resp.matches) |-> MatchItem(resp.matches[i])])
        /\ \A i \in 1..Len(resp.body) :
              \E m \in group_matches(swipes) :
                 m.group_id = resp.groupId /\ MatchItem(m) = resp.body[i]

\* Three matches, the first of a higher score than the last, and the middle
\* one's lookup failed.
C5_Witness ==
    /\ IsMatches
    /\ Len(resp.matches) = 3
    /\ resp.matches[1].total_match_score > resp.matches[3].total_match_score
    /\ Len(resp.body) = 2
    /\ resp.body[1] = MatchItem(resp.matches[1])
    /\ resp.body[2] = MatchItem(resp.matches[3])

MembersOf(g) == {u \in Users : <<u, g>> \in members}

\* The swipes of the title of item `it` made in group g by its current members.
MemberSwipes(g, it) ==
    {r \in Bucket(swipes, g, it.id, it.mediaType) : r.user_id \in MembersOf(g)}

\* C3: every title in the body of GET /api/matches has a swipe of every current
\* member of the group, so its swipe count is at least the size of the group.
C3_EveryMemberRated ==
    IsMatches =>
        \A i \in 1..Len(resp.body) :
            /\ resp.body[i].swipeCount >= Cardinality(MembersOf(resp.groupId))
            /\ \A u \in MembersOf(resp.groupId) :
                  \E r \in MemberSwipes(resp.groupId, resp.body[i]) : r.user_id = u

\* C4: the score and the swipe count of every match in the body of GET
\* /api/matches are those of the swipes of the group's current members alone,
\* and none of these members' swipes is a 0.
C4_CurrentMembersOnly ==
    IsMatches =>
        \A i \in 1..Len(resp.body) :
            LET mine == MemberSwipes(resp.groupId, resp.body[i])
            IN /\ resp.body[i].score = SumScores(mine)
               /\ resp.body[i].swipeCount = Cardinality(mine)
               /\ \A r \in mine : r.score # 0

\* C6: a POST /api/swipe for a group leaves every stored swipe of the other
\* groups as it is.
C6_OtherGroupsKept ==
    [][\A req \in CompleteRequests(Users, Groups, OneTitle, Scores, {"swiped"}) :
          PostSwipe(req) =>
              \A r \in swipes : r.group_id # req.groupId => r \in swipes']_vars

\* The stored swipes with the user, title and group of row.
SameKey(tbl, row) == {r \in tbl : KeyOf(r, SwipesUniqueV2) = KeyOf(row, SwipesUniqueV2)}

\* C7: once POST /api/swipe has handled a request, the store holds one row for
\* the request's user, title and group, with the request's score and status
\* (so a re-swipe replaces the prior score), and handling the same request
\* again leaves the store as it is.
C7_Replayable ==
    [][\A i \in 1..MaxInflight :
          CompleteSwipe(i) =>
              /\ SameKey(swipes', SwipePayload(inflight[i].req))
                    = {SwipePayload(inflight[i].req)}
              /\ PostSwipeOutcome(swipes', swipesUnique, inflight[i].req).table = swipes']_vars

\* The table after the requests of inflight are handled one after the other,
\* in the order given, from table tbl.
RECURSIVE SerialTable(_, _)
SerialTable(order, tbl) ==
    IF order = <<>> THEN tbl
    ELSE SerialTable(Tail(order),
                     PostSwipeOutcome(tbl, swipesUnique, inflight[Head(order)].req).table)

AllAnswered == \A i \in 1..Len(inflight) : inflight[i].status # 0

\* C8: when every request is answered, the store is the one some serial order
\* of the requests leaves, and for every request it holds exactly one row for
\* the request's user, title and group, which carries the score and the status
\* of one of the requests.
C8_Serializable ==
    AllAnswered =>
        /\ \E perm \in Permutations(1..Len(inflight)) :
              swipes = SerialTable([i \in 1..Len(inflight) |-> perm[i]], {})
        /\ \A i \in 1..Len(inflight) :
              LET mine == SameKey(swipes, SwipePayload(inflight[i].req))
              IN /\ Cardinality(mine) = 1
                 /\ \E j \in 1..Len(inflight) : SwipePayload(inflight[j].req) \in mine

(***************************************************************************)
(* Tonight picks over time.  tonight_picks exists in the schema with       *)
(* group-scoped swipes only.                                               *)
(***************************************************************************)
InitTonight ==
    /\ swipesUnique = SwipesUniqueV2
    /\ members = Users \X Groups
    /\ swipes = {}
    /\ picks = {}
    /\ now = 0
    /\ user_providers = {}
    /\ inflight = <<>>
    /\ resp = NoResponse

NextTonight ==
    \/ Tick /\ now < MaxTime
    \/ \E req \in TonightRequests(Users, Groups, OneTitle) \cup IncompleteTonightRequests :
          PostTonight(req)
    \/ \E u \in Users \cup {Absent}, t \in OneTitle : DeleteTonight(u, t[1], t[2])
    \/ \E g \in Groups \cup {Absent}, failed \in SUBSET OneTitle : GetTonight(g, failed)

SpecTonight == InitTonight /\ [][NextTonight]_vars

\* The users holding, at time t, a pick of title k stored for group g that is
\* at most twelve hours old.
ActivePickers(g, k, t) ==
    {r.user_id : r \in {x \in picks : /\ x.group_id = g
                                      /\ x.movie_id = k[1]
                                      /\ x.media_type = k[2]
                                      /\ t - x.created_at <= TWELVE_HOURS}}

KeysOf(items) == {<<p.id, p.mediaType>> : p \in items}

\* The response lists the user of pick r as a picker of r's title.
Listed(rsp, r) ==
    \E p \in rsp.picks : /\ p.id = r.movie_id
                         /\ p.mediaType = r.media_type
                         /\ r.user_id \in BagToSet(p.pickedBy)

IsTonight == resp.op = "GET /api/tonight" /\ resp.status = 200

\* C9 as stated: GET tonight puts a title in overlaps iff at least two
\* distinct users hold an active pick for it in the group; a title with one
\* active picker is in picks and not in overlaps; every overlap is in picks.
C9_Overlaps ==
    [][\A g \in Groups, failed \in SUBSET OneTitle :
          GetTonight(g, failed) =>
              /\ resp'.overlaps \subseteq resp'.picks
              /\ \A k \in Titles :
                    LET n == Cardinality(ActivePickers(g, k, now))
                    IN /\ k \in KeysOf(resp'.overlaps) <=> n >= 2
                       /\ n = 1 => /\ k \in KeysOf(resp'.picks)
                                   /\ k \notin KeysOf(resp'.overlaps)]_vars

\* C9, amended: GET tonight puts a title in overlaps iff at least two distinct
\* users hold an active pick for it in the group and its catalog lookup
\* succeeded; a title with one active picker is never in overlaps, and is in
\* picks when its lookup succeeded; every overlap is in picks.
C9_OverlapsHydrated ==
    [][\A g \in Groups, failed \in SUBSET OneTitle :
          GetTonight(g, failed) =>
              /\ resp'.overlaps \subseteq resp'.picks
              /\ \A k \in Titles :
                    LET n == Cardinality(ActivePickers(g, k, now))
                    IN /\ k \in KeysOf(resp'.overlaps) <=> (n >= 2 /\ k \notin failed)
                       /\ n = 1 => /\ k \notin KeysOf(resp'.overlaps)
                                   /\ k \in KeysOf(resp'.picks) <=> k \notin failed]_vars

\* A read that reports an overlap of two picks made at different times.
C9_Witness ==
    /\ IsTonight
    /\ \E p \in resp.overlaps : BagToSet(p.pickedBy) = Users
    /\ \E r1, r2 \in picks : /\ r1.group_id = resp.groupId
                             /\ r2.group_id = resp.groupId
                             /\ r1.created_at < r2.created_at

SamePick(tbl, row) == {r \in tbl : KeyOf(r, PicksUnique) = KeyOf(row, PicksUnique)}

\* C11: the store never holds two picks of one (user, title, mediaType); a
\* handled POST tonight leaves, for its user and title, the one pick it posted
\* (its group, created now), whatever pick was stored before; and GET tonight
\* lists a user at most once in a title's pickedBy.
C11_OnePick ==
    /\ [](\A r \in picks : SamePick(picks, r) = {r})
    /\ [](IsTonight =>
            \A p \in resp.picks : \A u \in BagToSet(p.pickedBy) : CopiesIn(u, p.pickedBy) = 1)
    /\ [][\A req \in TonightRequests(Users, Groups, Titles) :
             PostTonight(req) =>
                 LET row == PickRow(req.userId, req.groupId, req.movieId, req.mediaType, now)
                 IN SamePick(picks', row) = {row}]_vars

\* A read that lists both users once each for a title, one of them having
\* picked it within twelve hours after the other.
C11_Witness ==
    /\ IsTonight
    /\ \E p \in resp.picks :
          /\ BagToSet(p.pickedBy) = Users
          /\ \A u \in Users : CopiesIn(u, p.pickedBy) = 1
    /\ \E r \in picks : r.created_at \in 1..(TWELVE_HOURS - 1) /\ r.created_at < resp.at

(***************************************************************************)
(* Picks of several titles over time: u1 picks either title, u2 one.       *)
(***************************************************************************)
PurgeRequests ==
    TonightRequests({"u1"}, {"gA"}, TwoTitles) \cup TonightRequests({"u2"}, {"gA"}, OneTitle)

NextPurge ==
    \/ Tick /\ now < MaxTime
    \/ \E req \in PurgeRequests \cup IncompleteTonightRequests : PostTonight(req)

SpecPurge == InitTonight /\ [][NextPurge]_vars

NextStatus ==
    \/ Swiping(Users, Groups, OneTitle, {1, 3}, {"swiped"}, MaxRows)
    \/ \E req \in TonightRequests(Users, Groups, OneTitle) : PostTonight(req)
    \/ \E u \in Users, t \in OneTitle : removePick(u, t)
    \/ \E g \in Groups, failed \in SUBSET OneTitle : GetTonight(g, failed)
    \/ \E u \in Users, g \in Groups, t \in OneTitle, st \in {"watching", "watched"} :
          Tonight_updateStatus(u, g, t, st)
    \/ \E u \in Users, g \in Groups, item \in swipes, st \in Statuses :
          Watchlist_updateStatus(u, g, item, st)

SpecStatus == InitJoined /\ [][NextStatus]_vars

\* GET tonight for group g at time t, with the lookups in failed failing,
\* lists user u as a picker of title k.
ListsPicker(tbl, g, t, failed, u, k) ==
    \E p \in HydratedPicks(MovieMap(ActiveRows(tbl, g, t)), failed) :
        /\ p.id = k[1]
        /\ p.mediaType = k[2]
        /\ u \in BagToSet(p.pickedBy)

NeverListed(tbl, u, k) ==
    \A g \in Groups, failed \in SUBSET Titles : ~ListsPicker(tbl, g, now, failed, u, k)

\* C13: once a user has un-picked a title (DELETE tonight), or has set the
\* title to watched in the Tonight view or in the Watchlist, GET tonight of no
\* group lists that user as a picker of the title.
C13_Unpicked ==
    [][/\ \A u \in Users, k \in OneTitle :
             removePick(u, k) => NeverListed(picks', u, k)
       /\ \A u \in Users, g \in Groups, k \in OneTitle :
             Tonight_updateStatus(u, g, k, "watched") => NeverListed(picks', u, k)
       /\ \A u \in Users, g \in Groups, item \in swipes :
             Watchlist_updateStatus(u, g, item, "watched") =>
                 NeverListed(picks', u, <<item.movie_id, item.media_type>>)]_vars

(***************************************************************************)
(* Calls of getDiscoveryFeed.  A behaviour starts with the call, its       *)
(* filters and the provider's answers, and one step runs it.               *)
(***************************************************************************)
Opt(S) == {None} \cup {Some(v) : v \in S}

NoFilters ==
    [page |-> None, type |-> None, genres |-> None, ageRating |-> None,
     minRating |-> None, runtimes |-> None, newReleases |-> None, sortBy |-> None,
     watchProviders |-> None, query |-> None, isFree |-> None, isClassic |-> None]

Item(id) == [id |-> id]

Data(results, totalPages) == [results |-> Some(results), total_pages |-> totalPages]

Endpoints ==
    {SearchEndpoint, TrendingEndpoint("all"), DiscoverEndpoint("movie"), DiscoverEndpoint("tv")}

OneReply ==
    [e \in Endpoints |->
        IF e = DiscoverEndpoint("tv") THEN Data(<<Item("t0")>>, 2)
        ELSE Data(<<Item("m0"), Item("m1")>>, 3)]

Calls(fs, replies) ==
    {[op |-> "call getDiscoveryFeed", filters |-> f, provider |-> r] :
        f \in fs, r \in replies}

InitDiscovery(fs, replies) ==
    /\ swipesUnique = SwipesUniqueV2
    /\ members = {}
    /\ swipes = {}
    /\ picks = {}
    /\ now = 0
    /\ user_providers = {}
    /\ inflight = <<>>
    /\ resp \in Calls(fs, replies)

ApplyDiscovery ==
    /\ resp.op = "call getDiscoveryFeed"
    /\ getDiscoveryFeed(resp.filters, resp.provider)

IsFeed == resp.op = "getDiscoveryFeed"

\* Every combination of a few values of each filter.
ModeFilters ==
    [page : {None, Some(2)},
     type : Opt({"all", "movie", "tv"}),
     genres : {None, Some(<<"Action">>)},
     ageRating : {None, Some(<<"Teen (PG-13)">>)},
     minRating : {None, Some(<<"6">>), Some(<<"8">>)},
     runtimes : {None, Some(ShortLabel)},
     newReleases : Opt({<<"true">>, <<"false">>}),
     sortBy : {None, Some(<<"vote_average.desc">>)},
     watchProviders : {None, Some(<<"8", "|", "9">>)},
     query : {None, Some(<<>>), Some(<<" ">>), Some(<<" ", "batman", " ">>)},
     isFree : {None, Some(<<"true">>)},
     isClassic : Opt({<<"true">>, <<"false">>})]

InitModes == InitDiscovery(ModeFilters, {OneReply})

SpecModes == InitModes /\ [][ApplyDiscovery]_vars

\* The query of the filters is defined and has a token other than blanks.
HasQuery(f) == IsSome(f.query) /\ \E i \in 1..Len(Val(f.query)) : Val(f.query)[i] # " "

PageText(f) == IF f.page = Some(2) THEN <<"2">> ELSE <<"1">>

\* C14: a call whose query is non-empty after trimming issues one request,
\* to /search/multi, with the parameters query, page and include_adult and
\* no other.
C14_SearchOnly ==
    IsFeed /\ HasQuery(resp.filters) =>
        /\ Len(resp.requests) = 1
        /\ resp.requests[1].endpoint = "/search/multi"
        /\ DOMAIN resp.requests[1].params = {"query", "page", "include_adult"}
        /\ resp.requests[1].params["query"] = Val(resp.filters.query)
        /\ resp.requests[1].params["page"] = PageText(resp.filters)
        /\ resp.requests[1].params["include_adult"] = <<"false">>

\* A search issued although every other filter is set.
C14_Witness ==
    /\ IsFeed
    /\ resp.filters.query = Some(<<" ", "batman", " ">>)
    /\ resp.filters.type = Some("movie")
    /\ resp.filters.genres # None /\ resp.filters.ageRating # None
    /\ resp.filters.minRating # None /\ resp.filters.runtimes # None
    /\ resp.filters.newReleases = Some(<<"true">>) /\ resp.filters.sortBy # None
    /\ resp.filters.watchProviders # None /\ resp.filters.isFree # None
    /\ resp.filters.isClassic = Some(<<"true">>)
    /\ resp.requests[1].endpoint = "/search/multi"

\* The filters of f that are active: a non-empty genres, ageRating, minRating,
\* runtimes or watchProviders, and a newReleases, isFree or isClassic of 'true'.
ActiveFilters(f) ==
    {k \in {"genres", "ageRating", "minRating", "runtimes", "watchProviders"} :
        f[k] # None /\ f[k] # Some(<<>>)}
    \cup {k \in {"newReleases", "isFree", "isClassic"} : f[k] = Some(<<"true">>)}

EndpointsOf(requests) == [i \in 1..Len(requests) |-> requests[i].endpoint]

\* The modes whose requests are the ones issued.
ModesOf(requests) ==
    {md \in {"search", "trending", "fan-out", "single-type"} :
        \/ md = "search" /\ EndpointsOf(requests) = <<"/search/multi">>
        \/ md = "trending" /\ EndpointsOf(requests) = <<"/trending/all/day">>
        \/ md = "fan-out" /\ EndpointsOf(requests) = <<"/discover/movie", "/discover/tv">>
        \/ md = "single-type" /\ EndpointsOf(requests) \in {<<"/discover/movie">>,
                                                            <<"/discover/tv">>}}

\* C17: every call is in exactly one mode; a call for scope all without a
\* query issues one trending request when no filter is active and two
\* discover requests, for movie and for tv, when some filter is.
C17_ModeSelection ==
    IsFeed =>
        /\ Cardinality(ModesOf(resp.requests)) = 1
        /\ resp.filters.type \in {None, Some("all")} /\ ~HasQuery(resp.filters) =>
              IF ActiveFilters(resp.filters) = {}
              THEN ModesOf(resp.requests) = {"trending"}
              ELSE ModesOf(resp.requests) = {"fan-out"}

\* Scope all with isClassic as the only active filter: two discover requests.
C17_Witness ==
    /\ IsFeed
    /\ resp.filters.type = Some("all")
    /\ ActiveFilters(resp.filters) = {"isClassic"}
    /\ ~HasQuery(resp.filters)
    /\ Len(resp.requests) = 2

\* The discover requests of the call.
DiscoverRequests ==
    {resp.requests[i] : i \in {j \in 1..Len(resp.requests) :
        resp.requests[j].endpoint \in {"/discover/movie", "/discover/tv"}}}

\* A rating as a number of tenths.
Tenths(text) ==
    CASE text = <<"6">> -> 60 [] text = <<"7.0">> -> 70 [] text = <<"8">> -> 80

\* C18: a discover request of a call with isClassic carries the floor 7.0,
\* or the user's minRating when that is higher, and never a floor below 7.0.
C18_ClassicFloor ==
    IsFeed /\ resp.filters.isClassic = Some(<<"true">>) =>
        \A r \in DiscoverRequests :
            /\ "vote_average.gte" \in DOMAIN r.params
            /\ Tenths(r.params["vote_average.gte"]) >= 70
            /\ r.params["vote_average.gte"] =
                  IF resp.filters.minRating # None
                     /\ Tenths(Val(resp.filters.minRating)) > 70
                  THEN Val(resp.filters.minRating)
                  ELSE <<"7.0">>

UpperBoundKey(r) ==
    IF r.endpoint = "/discover/movie" THEN "primary_release_date.lte" ELSE "first_air_date.lte"

LowerBoundKey(r) ==
    IF r.endpoint = "/discover/movie" THEN "primary_release_date.gte" ELSE "first_air_date.gte"

\* C19: a discover request carries the upper bound 2005-01-01 on the release
\* date when isClassic is 'true', and a lower bound exactly when newReleases
\* is 'true' and isClassic is not.
C19_ClassicExcludesNew ==
    IsFeed =>
        \A r \in DiscoverRequests :
            /\ resp.filters.isClassic = Some(<<"true">>) =>
                  /\ UpperBoundKey(r) \in DOMAIN r.params
                  /\ r.params[UpperBoundKey(r)] = <<"2005-01-01">>
            /\ LowerBoundKey(r) \in DOMAIN r.params <=>
                  /\ resp.filters.newReleases = Some(<<"true">>)
                  /\ resp.filters.isClassic # Some(<<"true">>)

\* isClassic and newReleases both 'true', scope all: two discover requests.
C19_Witness ==
    /\ IsFeed
    /\ resp.filters.isClassic = Some(<<"true">>)
    /\ resp.filters.newReleases = Some(<<"true">>)
    /\ Cardinality(DiscoverRequests) = 2

\* The strings that join up to MaxLabels of the given labels with commas.
Selections(labels) ==
    {JoinWith(sel, ",") : sel \in UNION {[1..n -> labels] : n \in 1..MaxLabels}}

(***************************************************************************)
(* Calls with every selection of runtime labels, known or not.             *)
(***************************************************************************)
RuntimeFilters ==
    {[NoFilters EXCEPT !.type = t, !.runtimes = r] :
        t \in Opt({"all", "movie", "tv"}),
        r \in {None, Some(<<>>)} \cup
              {Some(x) : x \in Selections({ShortLabel, MediumLabel, LongLabel, <<"Any">>})}}

InitRuntime == InitDiscovery(RuntimeFilters, {OneReply})

SpecRuntime == InitRuntime /\ [][ApplyDiscovery]_vars

\* The runtime buckets whose label is in the runtimes filter.
SelectedBuckets(f) ==
    IF f.runtimes = None THEN {}
    ELSE {b \in {"short", "medium", "long"} :
            \E i \in 1..Len(Val(f.runtimes)) :
                Val(f.runtimes)[i] = (CASE b = "short" -> "< 90 min"
                                        [] b = "medium" -> "90-120 min"
                                        [] b = "long" -> "2+ hours")}

\* The request carries exactly the runtime bounds lo and hi (<<>> for none).
RuntimeBounds(r, lo, hi) ==
    /\ IF lo = <<>> THEN "with_runtime.gte" \notin DOMAIN r.params
       ELSE "with_runtime.gte" \in DOMAIN r.params /\ r.params["with_runtime.gte"] = lo
    /\ IF hi = <<>> THEN "with_runtime.lte" \notin DOMAIN r.params
       ELSE "with_runtime.lte" \in DOMAIN r.params /\ r.params["with_runtime.lte"] = hi

\* C15: the movie discover request of a call with a non-empty selection of
\* runtime buckets carries the covering range of the selection.
C15_RuntimeUnion ==
    IsFeed /\ SelectedBuckets(resp.filters) # {} =>
        \A r \in DiscoverRequests :
            r.endpoint = "/discover/movie" =>
                LET sel == SelectedBuckets(resp.filters)
                IN /\ {"short", "long"} \subseteq sel => RuntimeBounds(r, <<>>, <<>>)
                   /\ sel = {"short", "medium"} => RuntimeBounds(r, <<>>, <<"120">>)
                   /\ sel = {"medium", "long"} => RuntimeBounds(r, <<"90">>, <<>>)
                   /\ sel = {"short"} => RuntimeBounds(r, <<>>, <<"90">>)
                   /\ sel = {"medium"} => RuntimeBounds(r, <<"90">>, <<"120">>)
                   /\ sel = {"long"} => RuntimeBounds(r, <<"120">>, <<>>)

\* Short and long selected, the movie request sent without a runtime bound.
C15_Witness ==
    /\ IsFeed
    /\ SelectedBuckets(resp.filters) = {"short", "long"}
    /\ \E r \in DiscoverRequests : r.endpoint = "/discover/movie" /\ RuntimeBounds(r, <<>>, <<>>)

(***************************************************************************)
(* Calls with every selection of age-rating labels, known or not.          *)
(***************************************************************************)
AgeLabels == {AGE_RATINGS[i].label : i \in 1..Len(AGE_RATINGS)} \cup {<<"Adults (NC-17)">>}

CertFilters ==
    {[NoFilters EXCEPT !.type = t, !.ageRating = a] :
        t \in Opt({"all", "movie", "tv"}),
        a \in {None, Some(<<>>)} \cup {Some(x) : x \in Selections(AgeLabels)}}

InitCerts == InitDiscovery(CertFilters, {OneReply})

SpecCerts == InitCerts /\ [][ApplyDiscovery]_vars

\* The certifications, for the media type of request r, of the labels of
\* AGE_RATINGS that the ageRating filter names.
SelectedCerts(f, r) ==
    IF f.ageRating = None THEN {}
    ELSE UNION {LET certs == IF r.endpoint = "/discover/movie"
                             THEN AGE_RATINGS[i].movie ELSE AGE_RATINGS[i].tv
                IN {certs[j] : j \in {k \in 1..Len(certs) : certs[k] # "|"}} :
                    i \in {n \in 1..Len(AGE_RATINGS) :
                              \E j \in 1..Len(Val(f.ageRating)) :
                                  <<Val(f.ageRating)[j]>> = AGE_RATINGS[n].label}}

\* The text lists the members of set, each once, with a pipe between two.
PipeDelimited(text, set) ==
    /\ Len(text) = 2 * Cardinality(set) - 1
    /\ \A i \in 1..Len(text) : IF i % 2 = 0 THEN text[i] = "|" ELSE text[i] \in set
    /\ \A c \in set : \E i \in 1..Len(text) : text[i] = c

\* C20: a discover request carries as certification the certifications of
\* all selected labels for its media type, each once, pipe-delimited, and no
\* certification parameter when the selected labels have none.
C20_CertificationUnion ==
    IsFeed =>
        \A r \in DiscoverRequests :
            IF SelectedCerts(resp.filters, r) = {}
            THEN "certification" \notin DOMAIN r.params
            ELSE /\ "certification" \in DOMAIN r.params
                 /\ PipeDelimited(r.params["certification"], SelectedCerts(resp.filters, r))

\* Family and Teen selected with an unknown label: the movie request asks for
\* G|PG|PG-13.
C20_Witness ==
    /\ IsFeed
    /\ resp.filters.ageRating =
          Some(<<"Family (G/PG)", ",", "Adults (NC-17)", ",", "Teen (PG-13)">>)
    /\ \E r \in DiscoverRequests :
          /\ r.endpoint = "/discover/movie"
          /\ r.params["certification"] = <<"G", "|", "PG", "|", "PG-13">>

(***************************************************************************)
(* Fan-out calls with every pair of sub-pages of up to MaxResults results. *)
(***************************************************************************)
ResultLists == UNION {[1..n -> {Item("1"), Item("2")}] : n \in 0..MaxResults}

MergeReplies ==
    {[e \in Endpoints |->
         IF e = DiscoverEndpoint("movie") THEN [results |-> mr, total_pages |-> mp]
         ELSE IF e = DiscoverEndpoint("tv") THEN [results |-> tr, total_pages |-> tp]
         ELSE OneReply[e]] :
        mr \in Opt(ResultLists), tr \in Opt(ResultLists), mp \in 1..MaxPages, tp \in 1..MaxPages}

MergeFilters ==
    {[NoFilters EXCEPT !.type = t, !.isFree = Some(<<"true">>)] : t \in {None, Some("all")}}

InitMerge == InitDiscovery(MergeFilters, MergeReplies)

SpecMerge == InitMerge /\ [][ApplyDiscovery]_vars

\* The results the provider gave for a media type, each with its media type.
SubPage(mediaType) ==
    LET data == resp.provider[IF mediaType = "movie" THEN "/discover/movie" ELSE "/discover/tv"]
        results == IF data.results = None THEN <<>> ELSE Val(data.results)
    IN [i \in 1..Len(results) |-> [id |-> results[i].id, media_type |-> mediaType]]

\* C16: the merged page of a fan-out call alternates the movie and the tv
\* results from the first movie result on, then continues with the rest of
\* the longer list, and total_pages is the smaller of the two total_pages.
C16_Interleave ==
    IsFeed /\ Len(resp.requests) = 2 =>
        LET a == SubPage("movie")
            b == SubPage("tv")
            n == IF Len(a) < Len(b) THEN Len(a) ELSE Len(b)
            longer == IF Len(a) < Len(b) THEN b ELSE a
            merged == Val(resp.body.results)
        IN /\ Len(merged) = Len(a) + Len(b)
           /\ \A i \in 1..n : merged[2 * i - 1] = a[i] /\ merged[2 * i] = b[i]
           /\ \A i \in (n + 1)..Len(longer) : merged[n + i] = longer[i]
           /\ SelectSeq(merged, LAMBDA x : x.media_type = "movie") = a
           /\ SelectSeq(merged, LAMBDA x : x.media_type = "tv") = b
           /\ resp.body.total_pages <= resp.provider["/discover/movie"].total_pages
           /\ resp.body.total_pages <= resp.provider["/discover/tv"].total_pages
           /\ resp.body.total_pages \in {resp.provider["/discover/movie"].total_pages,
                                         resp.provider["/discover/tv"].total_pages}

\* Three movie results and two tv results merged into five.
C16_Witness ==
    /\ IsFeed
    /\ Len(SubPage("movie")) = 3
    /\ Len(SubPage("tv")) = 2
    /\ Val(resp.body.results) = <<SubPage("movie")[1], SubPage("tv")[1], SubPage("movie")[2],
                                  SubPage("tv")[2], SubPage("movie")[3]>>
    /\ resp.provider["/discover/movie"].total_pages > resp.provider["/discover/tv"].total_pages

(***************************************************************************)
(* Provider resolution: users join and leave the groups and save their     *)
(* providers, and discovery is requested with and without a group and a    *)
(* user, each lookup answering, giving no data or throwing.                *)
(***************************************************************************)
MaxSelected == 2

Lookups(rows) == {Threw, NoData} \cup {Selected(seq) : seq \in Listings(rows)}

\* The outcomes of the member and the provider lookup of a request.
Resolutions(q) ==
    UNION {{<<ml, pl>> :
               pl \in IF AsksProviders(q.groupId, q.userId, ml)
                      THEN Lookups(ProviderRowsAsked(q.groupId, q.userId, ml))
                      ELSE {NotAsked}} :
           ml \in IF AsksMembers(q.groupId) THEN Lookups(GroupMembers(q.groupId))
                  ELSE {NotAsked}}

ProviderLists ==
    {None} \cup {Some(ids) : ids \in UNION {[1..n -> ProviderIds] : n \in 0..MaxSelected}}

ProviderQueries ==
    {[NoQuery EXCEPT !.groupId = g, !.userId = u] :
        g \in {"gA", Absent}, u \in {"u1", Absent}}

InitProviders ==
    /\ swipesUnique = SwipesUniqueV2
    /\ members = {}
    /\ swipes = {}
    /\ picks = {}
    /\ user_providers = {}
    /\ now = 0
    /\ inflight = <<>>
    /\ resp = NoResponse

NextProviders ==
    \/ Membership
    \/ \E u \in Users \cup {Absent}, ids \in ProviderLists :
          PostProviders(u, ids) /\ Cardinality(user_providers') <= MaxRows
    \/ \E q \in ProviderQueries, catalogDown \in BOOLEAN :
          \E lk \in Resolutions(q) :
             GetDiscovery(q, lk[1], lk[2], NotAsked, {}, OneReply, catalogDown)

SpecProviders == InitProviders /\ [][NextProviders]_vars

IsDiscovery(r) == r.op = "GET /api/discovery"

\* Every lookup the handler made gave its rows.
Resolved(q, lk) ==
    /\ AsksMembers(q.groupId) => IsSome(lk[1].data)
    /\ AsksProviders(q.groupId, q.userId, lk[1]) => IsSome(lk[2].data)

\* The providers selected by the current members of the group, or by the
\* user when the request names no group.
SelectedProviders(q) ==
    IF q.groupId # Absent
    THEN {r.provider_id : r \in {x \in user_providers : <<x.user_id, q.groupId>> \in members}}
    ELSE IF q.userId # Absent
    THEN {r.provider_id : r \in {x \in user_providers : x.user_id = q.userId}}
    ELSE {}

\* The provider filter of the answer is the ids of set, each once, in the
\* filters and in every discover request; with no ids there is no filter.
FiltersBy(r, set) ==
    IF set = {}
    THEN /\ r.filters.watchProviders = None
         /\ \A i \in 1..Len(r.answer.requests) :
               "with_watch_providers" \notin DOMAIN r.answer.requests[i].params
    ELSE /\ IsSome(r.filters.watchProviders)
         /\ PipeDelimited(Val(r.filters.watchProviders), {Digit(p) : p \in set})
         /\ \A i \in 1..Len(r.answer.requests) :
               /\ "with_watch_providers" \in DOMAIN r.answer.requests[i].params
               /\ r.answer.requests[i].params["with_watch_providers"] =
                     Val(r.filters.watchProviders)

\* C21: when the lookups answer, the provider filter of a discovery request
\* with a group is the union of the providers of the group's current
\* members, each id once; without a group it is the requesting user's own
\* providers; and with no provider selected there is no provider filter.
C21_ProviderUnion ==
    [][IsDiscovery(resp') =>
          \A lk \in Resolutions(resp'.query) :
             /\ Resolved(resp'.query, lk)
             /\ resp'.filters.watchProviders =
                   watchProvidersOf(resp'.query.groupId, resp'.query.userId, lk[1], lk[2])
             => FiltersBy(resp', SelectedProviders(resp'.query))]_vars

\* u1 selected provider 8 only and u2 provider 9 only, both are members of gA,
\* and the request for gA filters by both.
C21_Witness ==
    /\ IsDiscovery(resp)
    /\ resp.query.groupId = "gA"
    /\ {<<"u1", "gA">>, <<"u2", "gA">>} \subseteq members
    /\ user_providers = {ProviderRow("u1", 8), ProviderRow("u2", 9)}
    /\ IsSome(resp.filters.watchProviders)
    /\ Len(Val(resp.filters.watchProviders)) = 3
    /\ resp.answer.status = 200

\* A lookup the handler made threw or gave no data.
LookupFailed(q, lk) == ~Resolved(q, lk)

\* C22: when the member or the provider lookup throws or gives no data, the
\* request goes on with no provider filter: no catalog request carries one,
\* and unless the catalog itself fails the answer is the feed with status 200.
C22_FailOpen ==
    [][IsDiscovery(resp') =>
          \A lk \in Resolutions(resp'.query), catalogDown \in BOOLEAN :
             /\ LookupFailed(resp'.query, lk)
             /\ GetDiscovery(resp'.query, lk[1], lk[2], NotAsked, {}, OneReply, catalogDown)
             => /\ resp'.filters.watchProviders = None
                /\ \A i \in 1..Len(resp'.answer.requests) :
                      "with_watch_providers" \notin DOMAIN resp'.answer.requests[i].params
                /\ ~catalogDown =>
                      /\ resp'.answer.status = 200
                      /\ ~resp'.answer.error
                      /\ resp'.answer.body =
                            Feed([resp'.filters EXCEPT !.watchProviders = None], OneReply)]_vars

\* A member of the group has a provider, the request for the group is
\* answered 200 and nothing is filtered: a lookup failed.
C22_Witness ==
    /\ IsDiscovery(resp)
    /\ SelectedProviders(resp.query) # {}
    /\ resp.filters.watchProviders = None
    /\ resp.answer.status = 200
    /\ resp.answer.path = "feed"

(***************************************************************************)
(* Family-liked discovery.  Three relatives are in group gA; u2 liked the  *)
(* first n titles, u3 the first k of them, the requester u1 the first, and *)
(* u2 rated one more title 1.  The swipes stay as they are; the relatives  *)
(* leave and rejoin the group and u1 asks for the pages.                   *)
(***************************************************************************)
MaxLiked == 21

Relatives == <<"u1", "u2", "u3">>

TitleId(i) == "t" \o ToString(i)

LikedBy(u, n) == {SwipeRow(u, "gA", TitleId(i), "movie", 2, "swiped") : i \in 1..n}

FamilySwipes(n, k) ==
    LikedBy("u2", n) \cup LikedBy("u3", k) \cup LikedBy("u1", 1)
        \cup {SwipeRow("u2", "gA", TitleId(n + 1), "movie", 1, "swiped")}

\* The rows of a set in the order of their users and titles, and the same
\* list read from its second row on, as two of the orders in which the store
\* may answer.
AllRows ==
    [i \in 1..(Len(Relatives) * (MaxLiked + 1)) |->
        SwipeRow(Relatives[((i - 1) \div (MaxLiked + 1)) + 1], "gA",
                 TitleId(((i - 1) % (MaxLiked + 1)) + 1), "movie",
                 IF ((i - 1) % (MaxLiked + 1)) + 1 = MaxLiked + 1 THEN 1 ELSE 2, "swiped")]

InOrder(rows) == LET selected(r) == r \in rows IN SelectSeq(AllRows, selected)

Rotated(seq) == IF seq = <<>> THEN seq ELSE Append(Tail(seq), Head(seq))

StoreOrders(rows) == {InOrder(rows), Rotated(InOrder(rows))}

FamilyQueries ==
    {[NoQuery EXCEPT !.groupId = g, !.userId = "u1", !.familyLiked = fl,
                     !.likedByMember = by, !.page = p, !.query = qu] :
        g \in {"gA", Absent}, fl \in {None, Some(<<"true">>)}, by \in {None, Some("u2")},
        p \in {None, Some(<<"1">>), Some(<<"2">>)}, qu \in {None, Some(<<"batman">>)}}

\* Nobody liked anything, or u2 liked one title, a full page or a title more.
LikedCounts == {0, 1, MaxLiked - 1, MaxLiked}

InitFamily ==
    /\ swipesUnique = SwipesUniqueV2
    /\ members = {<<Relatives[i], "gA">> : i \in 1..Len(Relatives)}
    /\ \E n \in LikedCounts : \E k \in {0, n} : swipes = FamilySwipes(n, k)
    /\ picks = {}
    /\ user_providers = {}
    /\ now = 0
    /\ inflight = <<>>
    /\ resp = NoResponse

\* The provider lookups, checked under SpecProviders, throw here.
AskFamily(q, likedLookup, failed, catalogDown) ==
    GetDiscovery(q, IF AsksMembers(q.groupId) THEN Threw ELSE NotAsked,
                 IF AsksProviders(q.groupId, q.userId, Threw) THEN Threw ELSE NotAsked,
                 likedLookup, failed, OneReply, catalogDown)

LikedLookups(q) ==
    IF IsFamilyLiked(q, FiltersOf(q, None))
    THEN {Threw, NoData} \cup
         {Selected(seq) : seq \in StoreOrders(LikedRows(q.groupId, q.userId, FiltersOf(q, None)))}
    ELSE {NotAsked}

FailedLookups == {{}, {<<TitleId(1), "movie">>, <<TitleId(MaxLiked), "movie">>}}

NextFamily ==
    \/ leaveGroup("u2", "gA")
    \/ joinGroup("u2", "gA")
    \/ \E q \in FamilyQueries :
          \E likedLookup \in LikedLookups(q),
             failed \in IF IsFamilyLiked(q, FiltersOf(q, None)) THEN FailedLookups ELSE {{}},
             catalogDown \in IF WantsFamilyLiked(FiltersOf(q, None)) THEN {FALSE} ELSE BOOLEAN :
             AskFamily(q, likedLookup, failed, catalogDown)

SpecFamily == InitFamily /\ [][NextFamily]_vars

IsFamilyAnswer(r) ==
    IsDiscovery(r) /\ r.answer.path = "family-liked" /\ r.answer.status = 200

TitlesOf(results) == {<<results[i].id, results[i].media_type>> : i \in 1..Len(results)}

\* The titles that members of the group other than the requester, or the
\* named member, rated 2 or more in the group.
LikedTitles(q) ==
    {<<r.movie_id, r.media_type>> :
        r \in {x \in swipes :
                  /\ x.group_id = q.groupId
                  /\ x.score >= 2
                  /\ <<x.user_id, q.groupId>> \in members
                  /\ IF IsSome(q.likedByMember) THEN x.user_id = Val(q.likedByMember)
                     ELSE x.user_id # q.userId}}

\* The number of titles on page p of n titles.
OnPage(n, p) ==
    IF n >= p * pageSize THEN pageSize
    ELSE IF n > (p - 1) * pageSize THEN n - (p - 1) * pageSize
    ELSE 0

\* The same request for another page.
OtherPageOf(r, q) ==
    /\ IsFamilyAnswer(r)
    /\ [r.query EXCEPT !.page = q.page] = q
    /\ r.answer.page # FamilyPage(FiltersOf(q, None))

\* C23: a family-liked answer lists, each once, only titles that members
\* other than the requester (or the named member) rated 2 or more in the
\* group; total_pages is the number of these titles over 20, rounded up;
\* page p holds the titles of its place when every lookup succeeds; and the
\* pages of one swipe set share no title.
C23_FamilyLiked ==
    [][IsFamilyAnswer(resp') =>
          \A ll \in LikedLookups(resp'.query), failed \in FailedLookups :
             /\ IsSome(ll.data)
             /\ AskFamily(resp'.query, ll, failed, FALSE)
             => LET results == resp'.answer.results
                    liked == LikedTitles(resp'.query)
                IN /\ TitlesOf(results) \subseteq liked
                   /\ Cardinality(TitlesOf(results)) = Len(results)
                   /\ Len(results) <= pageSize
                   /\ resp'.answer.total_pages = MathCeil(Cardinality(liked), pageSize)
                   /\ failed = {} =>
                         Len(results) = OnPage(Cardinality(liked), resp'.answer.page)
                   /\ OtherPageOf(resp, resp'.query) =>
                         TitlesOf(resp.answer.results) \cap TitlesOf(results) = {}]_vars

(***************************************************************************)
(* The group's views: u1 and u2 rate and pick two titles in gA, and the    *)
(* matches, the tonight picks and the family-liked titles are requested    *)
(* with and without a groupId, each subset of the catalog lookups failing. *)
(***************************************************************************)
ViewQueries ==
    {[NoQuery EXCEPT !.groupId = g, !.userId = "u1", !.familyLiked = Some(<<"true">>)] :
        g \in {"gA", Absent}}

ViewLookups(q) ==
    IF IsFamilyLiked(q, FiltersOf(q, None))
    THEN Lookups(LikedRows(q.groupId, q.userId, FiltersOf(q, None)))
    ELSE {NotAsked}

NextViews ==
    \/ Swiping(Users, {"gA"}, TwoTitles, {1, 3}, {"swiped"}, MaxRows)
    \/ \E req \in TonightRequests(Users, {"gA"}, TwoTitles) : PostTonight(req)
    \/ Matching({"gA"}, TwoTitles)
    \/ \E g \in {"gA", Absent}, failed \in SUBSET TwoTitles : GetTonight(g, failed)
    \/ \E q \in ViewQueries, failed \in SUBSET TwoTitles :
          \E likedLookup \in ViewLookups(q) : AskFamily(q, likedLookup, failed, FALSE)

SpecViews == InitTonight /\ [][NextViews]_vars

\* C24: a request for the family-liked titles, the matches or the tonight
\* picks without a groupId is answered with status 200 and an empty result.
C24_NoContext ==
    [][/\ \A failed \in SUBSET TwoTitles :
             GetMatches(Absent, <<>>, failed) => resp'.status = 200
       /\ \A failed \in SUBSET TwoTitles :
             GetTonight(Absent, failed) => resp'.status = 200
       /\ \A q \in ViewQueries, failed \in SUBSET TwoTitles :
             Missing(q.groupId) /\ AskFamily(q, NotAsked, failed, FALSE) =>
                /\ resp'.answer.status = 200
                /\ resp'.answer.results = <<>>
                /\ resp'.answer.message]_vars

\* C25: whichever catalog lookups fail, GET matches, GET tonight and the
\* family-liked discovery answer 200 with exactly the titles of the view
\* whose lookup succeeded.
C25_HydrationIsolated ==
    [][\A failed \in SUBSET TwoTitles :
          /\ (/\ resp'.op = "GET /api/matches"
              /\ resp'.status = 200
              /\ GetMatches("gA", resp'.matches, failed))
             => /\ {<<resp'.body[i].id, resp'.body[i].mediaType>> : i \in 1..Len(resp'.body)} =
                      {<<m.movie_id, m.media_type>> :
                          m \in {x \in group_matches(swipes) : x.group_id = "gA"}} \ failed
                /\ \A i, j \in 1..Len(resp'.body) : i # j => resp'.body[i] # resp'.body[j]
          /\ (/\ resp'.op = "GET /api/tonight"
              /\ GetTonight("gA", failed))
             => /\ resp'.status = 200
                /\ KeysOf(resp'.picks) =
                      {k \in Titles : ActivePickers("gA", k, now) # {}} \ failed
          /\ IsDiscovery(resp') =>
                \A ll \in ViewLookups(resp'.query) :
                   (/\ ~Missing(resp'.query.groupId)
                    /\ IsSome(ll.data)
                    /\ AskFamily(resp'.query, ll, failed, FALSE))
                   => /\ resp'.answer.status = 200
                      /\ TitlesOf(resp'.answer.results) =
                            {<<r.movie_id, r.media_type>> :
                                r \in LikedRows(resp'.query.groupId, resp'.query.userId,
                                                resp'.filters)} \ failed
                      /\ Cardinality(TitlesOf(resp'.answer.results)) =
                            Len(resp'.answer.results)]_vars

\* Two matches, one lookup failed and the other match is returned.
C25_Witness ==
    /\ IsMatches
    /\ Len(resp.matches) = 2
    /\ Len(resp.body) = 1

\* C26: a discovery request with a non-empty query, a group and a user is
\* answered by the text search alone, also when it asks for the
\* family-liked titles.
C26_QueryFirst ==
    (/\ IsDiscovery(resp)
     /\ IsSearch(resp.filters)
     /\ ~Missing(resp.query.groupId)
     /\ ~Missing(resp.query.userId))
    => /\ resp.answer.path = "feed"
       /\ Len(resp.answer.requests) = 1
       /\ resp.answer.requests[1].endpoint = SearchEndpoint

\* C27: the store holds at most one pick of a user for a title and media
\* type, whatever the groups; a POST tonight for a title the user has picked
\* in another group leaves that one pick in the posted group, created now;
\* and GET tonight lists a user as a picker only by a stored pick of the
\* requested group, so the user is no longer listed in the first group.
C27_OnePickAcrossGroups ==
    /\ [](\A r1, r2 \in picks :
             KeyOf(r1, PicksUnique) = KeyOf(r2, PicksUnique) => r1.group_id = r2.group_id)
    /\ [][\A req \in TonightRequests(Users, Groups, Titles) :
             (/\ resp'.op = "POST /api/tonight"
              /\ PostTonight(req)
              /\ \E old \in picks :
                    /\ old.user_id = req.userId
                    /\ old.movie_id = req.movieId
                    /\ old.media_type = req.mediaType
                    /\ old.group_id # req.groupId)
             => {r \in picks' : /\ r.user_id = req.userId
                                /\ r.movie_id = req.movieId
                                /\ r.media_type = req.mediaType} =
                   {PickRow(req.userId, req.groupId, req.movieId, req.mediaType, now)}]_vars
    /\ [](IsTonight =>
            \A p \in resp.picks : \A u \in BagToSet(p.pickedBy) :
               \E r \in picks : /\ r.user_id = u
                                /\ r.movie_id = p.id
                                /\ r.media_type = p.mediaType
                                /\ r.group_id = resp.groupId)

\* u1's pick is stored in gB, made after u2's pick in gA, and the read of gA
\* lists u2 alone.
C27_Witness ==
    /\ IsTonight
    /\ resp.groupId = "gA"
    /\ \E r1, r2 \in picks :
          /\ r1.user_id = "u1" /\ r1.group_id = "gB"
          /\ r2.user_id = "u2" /\ r2.group_id = "gA"
          /\ r1.created_at > r2.created_at
          /\ r1.movie_id = r2.movie_id /\ r1.media_type = r2.media_type
    /\ \A p \in resp.picks : BagToSet(p.pickedBy) = {"u2"}
    /\ resp.picks # {}
    /\ resp.overlaps = {}

(***************************************************************************)
(* Status changes and the scores                                           *)
(***************************************************************************)
\* The swipe of user u for title k in group g.
SwipeOf(tbl, u, g, k) ==
    {r \in tbl : /\ r.user_id = u
                 /\ r.group_id = g
                 /\ r.movie_id = k[1]
                 /\ r.media_type = k[2]}

\* Who scored what, in which group: the table without status and time.
ScoredRows(tbl) ==
    {<<r.user_id, r.group_id, r.movie_id, r.media_type, r.score>> : r \in tbl}

\* After the status change the user's swipe of the title carries the new
\* status and the score it had, and no score and no row of group_matches
\* has changed.
StatusOnly(u, g, k, st) ==
    /\ \A old \in SwipeOf(swipes, u, g, k) :
          \E r \in SwipeOf(swipes', u, g, k) : r.status = st /\ r.score = old.score
    /\ ScoredRows(swipes') = ScoredRows(swipes)
    /\ group_matches(swipes') = group_matches(swipes)

\* C28: a status change leaves the score untouched: when a user who has a
\* swipe of a title in the group sets the title to watching or watched, in
\* the Tonight view or in the watchlist, the swipe is stored with the new
\* status and the score it had, and the scores and the group's matches are
\* what they were.
C28_ScoreUntouched ==
    [][/\ \A u \in Users, g \in Groups, k \in OneTitle, st \in {"watching", "watched"} :
             (/\ resp'.op = "POST /api/swipe"
              /\ SwipeOf(swipes, u, g, k) # {}
              /\ Tonight_updateStatus(u, g, k, st))
             => StatusOnly(u, g, k, st)
       /\ \A u \in Users, g \in Groups, item \in swipes, st \in {"watching", "watched"} :
             (/\ resp'.op = "POST /api/swipe"
              /\ item.group_id = g
              /\ Watchlist_updateStatus(u, g, item, st))
             => StatusOnly(u, g, <<item.movie_id, item.media_type>>, st)]_vars

(***************************************************************************)
(* Validation of POST /api/swipe                                           *)
(***************************************************************************)
\* The request is answered 400 and neither stored nor passed on to the store.
Refused ==
    /\ resp'.op = "POST /api/swipe"
    /\ resp'.status = 400
    /\ swipes' = swipes
    /\ inflight' = inflight

\* The request is answered 200 and its row is in the table.
Stored(req) ==
    /\ resp'.status = 200
    /\ SwipePayload(req) \in swipes'

\* C29: POST /api/swipe answers a request with score 0 and userId, groupId and
\* movieId present with 200 and stores it as a swipe of score 0, and answers a
\* request without userId, groupId, movieId or score with 400 and leaves the
\* swipes as they are.
C29_Validation ==
    [][/\ \A req \in IncompleteRequests : ReceiveSwipe(req) => Refused
       /\ \A i \in 1..MaxInflight :
             (/\ CompleteSwipe(i)
              /\ inflight[i].req.score = 0)
             => /\ Stored(inflight[i].req)
                /\ \E r \in swipes' : /\ r.user_id = inflight[i].req.userId
                                      /\ r.movie_id = inflight[i].req.movieId
                                      /\ r.score = 0]_vars

(***************************************************************************)
(* The twelve-hour window of the purge and of the read                     *)
(***************************************************************************)
\* The stored picks of user u.
PicksOf(u) == {r \in picks : r.user_id = u}

\* The picks of u that the clean-up of a POST tonight of u at time t deletes.
PurgedAt(u, t) == picks \ Purge(picks, u, Cutoff(t))

\* The picks of u that GET tonight at time t selects, over all groups.
ActiveAt(u, t) == {r \in PicksOf(u) : Active(r, Cutoff(t))}

=============================================================================
